---------------------------- MODULE Spec2Model ----------------------------
(***************************************************************************)
(* geoclaw-landspill post-processing: the frame-range resolver, the chunk  *)
(* planner and the worker processes of plotdepth / plottopo, the           *)
(* frame-range scans and interpolate of _postprocessing/calc.py, the       *)
(* volume table and volumes.csv, the NetCDF writer of createnc, and the    *)
(* plotting tasks of utilities/plotdepths.py.                              *)
(***************************************************************************)
EXTENDS Integers, Sequences, FiniteSets, TLC

VARIABLES
    cli,         \* resolver: what the user typed (--frame-bg / --frame-ed)
    rundata,     \* resolver: the output settings of the case's setrun.py
    resolved,    \* resolver: the frame range a call site ends up with
    args,        \* pipeline: argparse.Namespace on entry to the chunking code
    aux_files,   \* pipeline: frames whose fort.a<NNNN> exists in soln_dir
    child_args,  \* pipeline: the per-process Namespace copies
    fno,         \* pipeline: loop variable of every child process
    saved,       \* pipeline: the savefig calls made so far
    faulty,      \* pipeline: frames whose rendering raises an error
    failed,      \* pipeline: the child processes whose task has raised
    parent,      \* pipeline: the parent process around pool.map / pool.starmap
    soln_dir,    \* scans: the frames of the solution folder
    query,       \* scans: frame_bg, frame_ed of the scan
    result,      \* scans: what the called function returned or raised
    soln,        \* mosaic: the pyclaw.Solution handed to interpolate
    interp_args, \* mosaic: dry_tol of the call, and how the merge library fails
    interp_out,  \* mosaic: what interpolate returned or raised
    vol_dir,     \* volumes: the frames of the solution folder
    vol_aux,     \* volumes: frames whose fort.a<NNNN> exists in the folder
    vol_args,    \* volumes: frame_bg, frame_ed and level (the number of levels)
    data,        \* volumes: what get_total_volume returned or raised
    csv_file,    \* volumes: volumes.csv
    nc_dir,      \* createnc: the frames of the solution folder
    nc_args,     \* createnc: the arguments of write_soln_to_nc
    root,        \* createnc: the NetCDF file and its Dataset handles
    writer,      \* createnc: position of convert_to_netcdf / write_soln_to_nc
    plot_args,   \* plotdepths.py: frame range, --continue, files found at start
    plotdir,     \* plotdepths.py: the plot folder and its depth<NNNN>.png files
    tasks        \* plotdepths.py: the plotting tasks of the run

resolverVars == <<cli, rundata, resolved>>
pipelineVars == <<args, aux_files, child_args, fno, saved, faulty, failed, parent>>
scanVars     == <<soln_dir, query, result>>
mosaicVars   == <<soln, interp_args, interp_out>>
volumeVars   == <<vol_dir, vol_aux, vol_args, data, csv_file>>
writerVars   == <<nc_dir, nc_args, root, writer>>
resumeVars   == <<plot_args, plotdir, tasks>>
vars == <<cli, rundata, resolved, args, aux_files, child_args, fno, saved,
          faulty, failed, parent,
          soln_dir, query, result, soln, interp_args, interp_out,
          vol_dir, vol_aux, vol_args, data, csv_file, nc_dir, nc_args, root, writer,
          plot_args, plotdir, tasks>>

(***************************************************************************)
(* Bounds of the model.                                                    *)
(***************************************************************************)
MaxFrame == 4      \* frame numbers of the pipeline are 0..MaxFrame
MaxProcs == 3      \* --nprocs is 1..MaxProcs
MaxFaulty == 1     \* at most MaxFaulty frames cannot be rendered

(***************************************************************************)
(* Values idle components hold while another component is checked.         *)
(***************************************************************************)
IdleResolver ==
    /\ cli = [frame_bg |-> [given |-> FALSE, val |-> 0],
              frame_ed |-> [given |-> FALSE, val |-> 0]]
    /\ rundata = [output_style |-> 1, num_output_times |-> 0, output_t0 |-> FALSE,
                  output_times |-> <<>>, total_steps |-> 0, output_step_interval |-> 1]
    /\ resolved = [site |-> "none", frame_bg |-> [given |-> FALSE, val |-> 0],
                   frame_ed |-> [given |-> FALSE, val |-> 0]]

IdlePipeline ==
    /\ args = [cmd |-> "none", frame_bg |-> 0, frame_ed |-> 0, nprocs |-> 1]
    /\ aux_files = {}
    /\ child_args = <<>>
    /\ fno = <<>>
    /\ saved = {}
    /\ faulty = {}
    /\ failed = {}
    /\ parent = "none"

IdleScan ==
    /\ soln_dir = <<>>
    /\ query = [frame_bg |-> 0, frame_ed |-> 0]
    /\ result = [fn |-> "none"]

IdleMosaic ==
    /\ soln = <<>>
    /\ interp_args = [dry_tol |-> 0, fault |-> "none"]
    /\ interp_out = [fn |-> "none"]

IdleVolume ==
    /\ vol_dir = <<>>
    /\ vol_aux = {}
    /\ vol_args = [frame_bg |-> 0, frame_ed |-> 0, level |-> 1]
    /\ data = [fn |-> "none"]
    /\ csv_file = [exists |-> FALSE, lines |-> <<>>]

IdleWriter ==
    /\ nc_dir = <<>>
    /\ nc_args = [module |-> "none", frame_bg |-> 0, frame_ed |-> 0, level |-> 1,
                  dry_tol |-> 0, extent |-> [given |-> FALSE, val |-> 0],
                  res |-> [given |-> FALSE, val |-> 0]]
    /\ root = [exists |-> FALSE, creates |-> 0, opens |-> 0, closes |-> 0,
               is_open |-> FALSE, x |-> 0, y |-> 0, nc_x |-> <<>>, nc_y |-> <<>>,
               crs |-> "none", time |-> <<>>, depth |-> <<>>]
    /\ writer = [pc |-> "none", band |-> 0, raised |-> "none", log |-> <<>>,
                 extent |-> <<>>, res |-> 0]

IdleResume ==
    /\ plot_args = [run |-> 0, frame_bg |-> 0, frame_ed |-> 0, restart |-> FALSE,
                    found |-> {}]
    /\ plotdir = [isdir |-> FALSE, files |-> {}, backups |-> 0]
    /\ tasks = <<>>

\* the components a specification of the earlier ones leaves alone
laterVars == <<mosaicVars, volumeVars, writerVars, resumeVars>>
IdleLater == IdleMosaic /\ IdleVolume /\ IdleWriter /\ IdleResume

\* and those a specification of one of the later ones leaves alone
earlierVars == <<resolverVars, pipelineVars, scanVars>>
IdleEarlier == IdleResolver /\ IdlePipeline /\ IdleScan
notMosaicVars == <<earlierVars, volumeVars, writerVars, resumeVars>>
IdleNotMosaic == IdleEarlier /\ IdleVolume /\ IdleWriter /\ IdleResume
notVolumeVars == <<earlierVars, mosaicVars, writerVars, resumeVars>>
IdleNotVolume == IdleEarlier /\ IdleMosaic /\ IdleWriter /\ IdleResume
notWriterVars == <<earlierVars, mosaicVars, volumeVars, resumeVars>>
IdleNotWriter == IdleEarlier /\ IdleMosaic /\ IdleVolume /\ IdleResume
notResumeVars == <<earlierVars, mosaicVars, volumeVars, writerVars>>
IdleNotResume == IdleEarlier /\ IdleMosaic /\ IdleVolume /\ IdleWriter

(***************************************************************************)
(* ParallelFramePipeline: plot_depth / plot_topo and their child processes *)
(***************************************************************************)

\* "{:05d}".format(n) for n >= 0: the decimal digits, zero-padded to width 5.
RECURSIVE Digits(_)
Digits(n) == IF n < 10 THEN <<n>> ELSE Append(Digits(n \div 10), n % 10)

RECURSIVE ZeroPad(_, _)
ZeroPad(ds, width) == IF Len(ds) >= width THEN ds ELSE ZeroPad(<<0>> \o ds, width)

FrameFileNameMod(n) == <<"frame", ZeroPad(Digits(n % 2), 5), ".png">>

FrameFileName(n) == <<"frame", ZeroPad(Digits(n), 5), ".png">>

\* the loop "for _ in range(nprocs-1)" that appends the remaining processes
RECURSIVE AppendRemaining(_, _, _)
AppendRemaining(ca, per_proc, k) ==
    IF k <= 0 THEN ca
    ELSE AppendRemaining(
            Append(ca, [frame_bg |-> ca[Len(ca)].frame_ed,
                        frame_ed |-> ca[Len(ca)].frame_ed + per_proc]),
            per_proc, k - 1)

\* a planner that forgets the remainder frames
plot_depth_child_args_noremainder(a) ==
    LET per_proc == (a.frame_ed - a.frame_bg) \div a.nprocs
        first == [frame_bg |-> a.frame_bg, frame_ed |-> a.frame_bg + per_proc]
    IN  AppendRemaining(<<first>>, per_proc, a.nprocs - 1)

\* a planner that starts every remaining process where the first one started
plot_depth_child_args_overlap(a) ==
    LET per_proc == (a.frame_ed - a.frame_bg) \div a.nprocs
        rem == (a.frame_ed - a.frame_bg) % a.nprocs
    IN  [i \in 1..a.nprocs |->
            IF i = 1 THEN [frame_bg |-> a.frame_bg,
                           frame_ed |-> a.frame_bg + per_proc + rem]
            ELSE [frame_bg |-> a.frame_bg + (i - 2) * per_proc + rem,
                  frame_ed |-> a.frame_bg + (i - 1) * per_proc + rem]]

plot_depth_child_args(a) ==
    LET per_proc == (a.frame_ed - a.frame_bg) \div a.nprocs
        first == [frame_bg |-> a.frame_bg,
                  frame_ed |-> a.frame_bg + per_proc
                               + ((a.frame_ed - a.frame_bg) % a.nprocs)]
    IN  AppendRemaining(<<first>>, per_proc, a.nprocs - 1)

plot_topo_child_args(a) ==
    LET per_proc == (a.frame_ed - a.frame_bg) \div a.nprocs
        first == [frame_bg |-> a.frame_bg,
                  frame_ed |-> a.frame_bg + per_proc
                               + ((a.frame_ed - a.frame_bg) % a.nprocs)]
    IN  AppendRemaining(<<first>>, per_proc, a.nprocs - 1)

\* multiprocessing.pool.MapResult._set with fail-fast semantics: the result is
\* ready as soon as one task has failed
MapResultReadyFailFast(number_left, success) == number_left = 0 \/ ~success

\* multiprocessing.pool.MapResult._set: the result of pool.map / pool.starmap
\* is only ready once all jobs are done, whether or not one has failed
MapResultReady(number_left, success) == number_left = 0

\* the tasks of the pool that have neither returned nor failed
Running == {i \in DOMAIN child_args :
               i \notin failed /\ fno[i] < child_args[i].frame_ed}

InitPipeline ==
    /\ \E cmd \in {"plotdepth", "plottopo"}, bg \in 0..MaxFrame, ed \in 0..MaxFrame,
          n \in 1..MaxProcs :
          args = [cmd |-> cmd, frame_bg |-> bg, frame_ed |-> ed, nprocs |-> n]
    /\ aux_files \in SUBSET (0..MaxFrame)
    /\ (args.cmd = "plotdepth" => aux_files = {})
    /\ child_args = <<>>
    /\ fno = <<>>
    /\ saved = {}
    /\ faulty \in {S \in SUBSET (0..MaxFrame) : Cardinality(S) <= MaxFaulty}
    /\ failed = {}
    /\ parent = "main"

\* plot_depth from the chunking code to the start of the pool
plot_depth ==
    /\ args.cmd = "plotdepth"
    /\ parent = "main"
    /\ child_args' = plot_depth_child_args(args)
    /\ fno' = [i \in 1..args.nprocs |-> child_args'[i].frame_bg]
    /\ parent' = "pool.starmap"
    /\ UNCHANGED <<args, aux_files, saved, faulty, failed>>

\* plot_topo from the chunking code to the start of the pool
plot_topo ==
    /\ args.cmd = "plottopo"
    /\ parent = "main"
    /\ child_args' = plot_topo_child_args(args)
    /\ fno' = [i \in 1..args.nprocs |-> child_args'[i].frame_bg]
    /\ parent' = "pool.map"
    /\ UNCHANGED <<args, aux_files, saved, faulty, failed>>

\* one iteration of the frame loop of plot_soln_frames in child process i: an
\* error failed while the frame is read or drawn ends the task before savefig
plot_soln_frames(i) ==
    /\ args.cmd = "plotdepth"
    /\ parent = "pool.starmap"
    /\ i \in Running
    /\ IF fno[i] \in faulty
       THEN /\ failed' = failed \cup {i}
            /\ UNCHANGED <<saved, fno>>
       ELSE /\ saved' = saved \cup {[proc |-> i, frame |-> fno[i],
                                     file |-> FrameFileName(fno[i])]}
            /\ fno' = [fno EXCEPT ![i] = @ + 1]
            /\ UNCHANGED failed
    /\ UNCHANGED <<args, aux_files, child_args, faulty, parent>>

\* a probe that finds an aux file for every frame
aux_is_file_always(files, n) == TRUE

\* args.soln_dir.joinpath("fort.a" + "{}".format(fno).zfill(4)).is_file()
aux_is_file(files, n) == n \in files

\* one iteration of the frame loop of plot_aux_frames in child process i: a
\* frame without fort.a<NNNN> is skipped before anything is read
plot_aux_frames(i) ==
    /\ args.cmd = "plottopo"
    /\ parent = "pool.map"
    /\ i \in Running
    /\ IF ~aux_is_file(aux_files, fno[i])
       THEN /\ fno' = [fno EXCEPT ![i] = @ + 1]
            /\ UNCHANGED <<saved, failed>>
       ELSE IF fno[i] \in faulty
       THEN /\ failed' = failed \cup {i}
            /\ UNCHANGED <<saved, fno>>
       ELSE /\ saved' = saved \cup {[proc |-> i, frame |-> fno[i],
                                     file |-> FrameFileName(fno[i])]}
            /\ fno' = [fno EXCEPT ![i] = @ + 1]
            /\ UNCHANGED failed
    /\ UNCHANGED <<args, aux_files, child_args, faulty, parent>>

\* pool.starmap / pool.map returns or re-raises in the parent, and leaving the
\* with block terminates the pool
pool_map ==
    /\ parent \in {"pool.starmap", "pool.map"}
    /\ MapResultReady(Cardinality(Running), failed = {})
    /\ parent' = IF failed # {} THEN "raised" ELSE "return 0"
    /\ UNCHANGED <<args, aux_files, child_args, fno, saved, faulty, failed>>

NextPipeline ==
    \/ plot_depth /\ UNCHANGED resolverVars /\ UNCHANGED scanVars
         /\ UNCHANGED laterVars
    \/ plot_topo /\ UNCHANGED resolverVars /\ UNCHANGED scanVars
         /\ UNCHANGED laterVars
    \/ \E i \in DOMAIN child_args : plot_soln_frames(i) /\ UNCHANGED resolverVars /\ UNCHANGED scanVars
         /\ UNCHANGED laterVars
    \/ \E i \in DOMAIN child_args : plot_aux_frames(i) /\ UNCHANGED resolverVars /\ UNCHANGED scanVars
         /\ UNCHANGED laterVars
    \/ pool_map /\ UNCHANGED resolverVars /\ UNCHANGED scanVars
         /\ UNCHANGED laterVars

StartPipeline == InitPipeline /\ IdleResolver /\ IdleScan /\ IdleLater

SpecPipeline == StartPipeline /\ [][NextPipeline]_vars

(***************************************************************************)
(* FrameRangeResolver: the frame range every call site ends up with        *)
(***************************************************************************)
MaxArg == 2        \* --frame-bg / --frame-ed values are 0..MaxArg
MaxOut == 2        \* num_output_times and len(output_times) are 0..MaxOut
MaxSteps == 4      \* total_steps is 0..MaxSteps
MaxInterval == 2   \* output_step_interval is 1..MaxInterval

\* a Python value that is either None or an int
None == [given |-> FALSE, val |-> 0]
Some(v) == [given |-> TRUE, val |-> v]
Opt(S) == {None} \cup {Some(v) : v \in S}

Abs(a) == IF a < 0 THEN -a ELSE a

\* Python's a // b
FloorDiv(a, b) == a \div b

\* Python's int(a / b): true division, then truncation toward zero
TruncDiv(a, b) ==
    IF (a < 0) = (b < 0) THEN Abs(a) \div Abs(b) ELSE -(Abs(a) \div Abs(b))

Sites == {"extract_info_from_setrun", "update_frame_range", "plot_depth",
          "create_volume_csv", "utilities", "calculatevolume"}

\* a resolver whose style-2 branch also counts the initial time
test_and_set_frame_ed_t0(frame_ed, rd) ==
    IF frame_ed.given THEN Some(frame_ed.val + 1)
    ELSE IF rd.output_style = 1
         THEN Some(rd.num_output_times + (IF rd.output_t0 THEN 1 ELSE 0))
    ELSE IF rd.output_style = 2
         THEN Some(Len(rd.output_times) + (IF rd.output_t0 THEN 1 ELSE 0))
    ELSE IF rd.output_style = 3
         THEN Some(FloorDiv(rd.total_steps, rd.output_step_interval)
                   + (IF rd.output_t0 THEN 1 ELSE 0))
    ELSE frame_ed

\* gclandspill/_misc.py: args.frame_ed after test_and_set_frame_ed
test_and_set_frame_ed(frame_ed, rd) ==
    IF frame_ed.given THEN Some(frame_ed.val + 1)
    ELSE IF rd.output_style = 1
         THEN Some(rd.num_output_times + (IF rd.output_t0 THEN 1 ELSE 0))
    ELSE IF rd.output_style = 2
         THEN Some(Len(rd.output_times))
    ELSE IF rd.output_style = 3
         THEN Some(FloorDiv(rd.total_steps, rd.output_step_interval)
                   + (IF rd.output_t0 THEN 1 ELSE 0))
    ELSE frame_ed

\* a resolver that converts the supplied end only under output style 1
update_frame_range_style1(frame_ed, rd) ==
    IF frame_ed.given
    THEN Some(frame_ed.val + (IF rd.output_style = 1 THEN 1 ELSE 0))
    ELSE IF rd.output_style = 1
         THEN Some(rd.num_output_times + (IF rd.output_t0 THEN 1 ELSE 0))
    ELSE IF rd.output_style = 2
         THEN Some(Len(rd.output_times))
    ELSE Some(TruncDiv(rd.total_steps, rd.output_step_interval)
              + (IF rd.output_t0 THEN 1 ELSE 0))

\* geoclaw-landspill/_misc.py: the value update_frame_range returns
update_frame_range(frame_ed, rd) ==
    IF frame_ed.given THEN Some(frame_ed.val + 1)
    ELSE IF rd.output_style = 1
         THEN Some(rd.num_output_times + (IF rd.output_t0 THEN 1 ELSE 0))
    ELSE IF rd.output_style = 2
         THEN Some(Len(rd.output_times))
    ELSE Some(TruncDiv(rd.total_steps, rd.output_step_interval)
              + (IF rd.output_t0 THEN 1 ELSE 0))

\* a resolver that converts an already converted end again
plot_depth_frame_ed_twice(frame_ed, rd) ==
    IF frame_ed.given THEN Some((frame_ed.val + 1) + 1)
    ELSE update_frame_range(frame_ed, rd)

\* plot.py: args.frame_ed after "# process args.frame_ed" of plot_depth
plot_depth_frame_ed(frame_ed, rd) ==
    IF frame_ed.given THEN Some(frame_ed.val + 1)
    ELSE IF rd.output_style = 1
         THEN Some(rd.num_output_times + (IF rd.output_t0 THEN 1 ELSE 0))
    ELSE IF rd.output_style = 2
         THEN Some(Len(rd.output_times))
    ELSE IF rd.output_style = 3
         THEN Some(TruncDiv(rd.total_steps, rd.output_step_interval)
                   + (IF rd.output_t0 THEN 1 ELSE 0))
    ELSE frame_ed

\* volumes.py: args.frame_ed after "# process args.frame_ed" of create_volume_csv
create_volume_csv_frame_ed(frame_ed, rd) ==
    IF frame_ed.given THEN Some(frame_ed.val + 1)
    ELSE IF rd.output_style = 1
         THEN Some(rd.num_output_times + (IF rd.output_t0 THEN 1 ELSE 0))
    ELSE IF rd.output_style = 2
         THEN Some(Len(rd.output_times))
    ELSE IF rd.output_style = 3
         THEN Some(TruncDiv(rd.total_steps, rd.output_step_interval)
                   + (IF rd.output_t0 THEN 1 ELSE 0))
    ELSE frame_ed

\* utilities/plotdepths.py and calculatevolume.py: "# number of frames"
script_frame_ed(frame_ed, rd) ==
    IF frame_ed.given THEN Some(frame_ed.val + 1)
    ELSE IF rd.output_style = 1
         THEN Some(rd.num_output_times + (IF rd.output_t0 THEN 1 ELSE 0))
    ELSE IF rd.output_style = 2
         THEN Some(Len(rd.output_times))
    ELSE Some(TruncDiv(rd.total_steps, rd.output_step_interval)
              + (IF rd.output_t0 THEN 1 ELSE 0))

\* a parser that honours --frame-bg only next to --frame-ed
main_frame_bg_both(c) == IF c.frame_bg.given /\ c.frame_ed.given THEN c.frame_bg ELSE Some(0)

\* __main__.py: --frame-bg is parsed with type=int, default=0
main_frame_bg(c) == IF c.frame_bg.given THEN c.frame_bg ELSE Some(0)

\* utilities/plotdepths.py: "# starting frame no." (no argparse default)
utilities_frame_bg(c) == IF c.frame_bg.given THEN Some(c.frame_bg.val) ELSE Some(0)

\* calculatevolume.py: "# starting frame no." tests args.frame_ed
calculatevolume_frame_bg(c) == IF c.frame_ed.given THEN c.frame_bg ELSE Some(0)

InitResolver ==
    /\ cli \in [frame_bg : Opt(0..MaxArg), frame_ed : Opt(0..MaxArg)]
    /\ \E style \in 1..3, n \in 0..MaxOut, t0 \in BOOLEAN, m \in 0..MaxOut,
          steps \in 0..MaxSteps, interval \in 1..MaxInterval :
          rundata = [output_style |-> style, num_output_times |-> n, output_t0 |-> t0,
                     output_times |-> [k \in 1..m |-> k], total_steps |-> steps,
                     output_step_interval |-> interval]
    /\ resolved = [site |-> "none", frame_bg |-> None, frame_ed |-> None]

\* plottopo / createnc / volumes through __main__.py and extract_info_from_setrun
extract_info_from_setrun ==
    /\ resolved.site = "none"
    /\ resolved' = [site |-> "extract_info_from_setrun",
                    frame_bg |-> main_frame_bg(cli),
                    frame_ed |-> test_and_set_frame_ed(cli.frame_ed, rundata)]
    /\ UNCHANGED <<cli, rundata>>

\* a caller of update_frame_range with the Namespace of __main__.py
call_update_frame_range ==
    /\ resolved.site = "none"
    /\ resolved' = [site |-> "update_frame_range",
                    frame_bg |-> main_frame_bg(cli),
                    frame_ed |-> update_frame_range(cli.frame_ed, rundata)]
    /\ UNCHANGED <<cli, rundata>>

\* plotdepth through __main__.py and plot_depth
plot_depth_resolve ==
    /\ resolved.site = "none"
    /\ resolved' = [site |-> "plot_depth",
                    frame_bg |-> main_frame_bg(cli),
                    frame_ed |-> plot_depth_frame_ed(cli.frame_ed, rundata)]
    /\ UNCHANGED <<cli, rundata>>

\* volumes through __main__.py and create_volume_csv
create_volume_csv_resolve ==
    /\ resolved.site = "none"
    /\ resolved' = [site |-> "create_volume_csv",
                    frame_bg |-> main_frame_bg(cli),
                    frame_ed |-> create_volume_csv_frame_ed(cli.frame_ed, rundata)]
    /\ UNCHANGED <<cli, rundata>>

\* the script utilities/plotdepths.py
utilities_plotdepths ==
    /\ resolved.site = "none"
    /\ resolved' = [site |-> "utilities",
                    frame_bg |-> utilities_frame_bg(cli),
                    frame_ed |-> script_frame_ed(cli.frame_ed, rundata)]
    /\ UNCHANGED <<cli, rundata>>

\* the script calculatevolume.py
calculatevolume ==
    /\ resolved.site = "none"
    /\ resolved' = [site |-> "calculatevolume",
                    frame_bg |-> calculatevolume_frame_bg(cli),
                    frame_ed |-> script_frame_ed(cli.frame_ed, rundata)]
    /\ UNCHANGED <<cli, rundata>>

NextResolver ==
    \/ extract_info_from_setrun /\ UNCHANGED pipelineVars /\ UNCHANGED scanVars
         /\ UNCHANGED laterVars
    \/ call_update_frame_range /\ UNCHANGED pipelineVars /\ UNCHANGED scanVars
         /\ UNCHANGED laterVars
    \/ plot_depth_resolve /\ UNCHANGED pipelineVars /\ UNCHANGED scanVars
         /\ UNCHANGED laterVars
    \/ create_volume_csv_resolve /\ UNCHANGED pipelineVars /\ UNCHANGED scanVars
         /\ UNCHANGED laterVars
    \/ utilities_plotdepths /\ UNCHANGED pipelineVars /\ UNCHANGED scanVars
         /\ UNCHANGED laterVars
    \/ calculatevolume /\ UNCHANGED pipelineVars /\ UNCHANGED scanVars
         /\ UNCHANGED laterVars

StartResolver == InitResolver /\ IdlePipeline /\ IdleScan /\ IdleLater

SpecResolver == StartResolver /\ [][NextResolver]_vars


(***************************************************************************)
(* BoundingBoxEstimator: the frame-range scans of _postprocessing/calc.py  *)
(***************************************************************************)
NumFrames == 2     \* the solution folder holds the frames 0..NumFrames-1
MaxPatches == 2    \* a frame holds at most MaxPatches grid patches

\* float("inf"), -float("inf") and the finite values
PosInf == [inf |-> 1, val |-> 0]
NegInf == [inf |-> -1, val |-> 0]
Fin(v) == [inf |-> 0, val |-> v]
Less(a, b) == a.inf < b.inf \/ (a.inf = 0 /\ b.inf = 0 /\ a.val < b.val)

\* Python's min(a, b) and max(a, b)
PyMin(a, b) == IF Less(b, a) THEN b ELSE a
PyMax(a, b) == IF Less(a, b) THEN b ELSE a

\* numpy's array.min() and array.max() of a non-empty array
RECURSIVE ArrayMin(_)
ArrayMin(a) == IF Len(a) = 1 THEN a[1]
               ELSE LET m == ArrayMin(Tail(a)) IN IF a[1] < m THEN a[1] ELSE m

RECURSIVE ArrayMax(_)
ArrayMax(a) == IF Len(a) = 1 THEN a[1]
               ELSE LET m == ArrayMax(Tail(a)) IN IF a[1] > m THEN a[1] ELSE m

\* the grid patches the solver may have written: geometry, q[0] and aux[0]
PatchPool ==
    { [patch |-> [level |-> 1, delta |-> <<4, 4>>,
                  lower_global |-> <<0, 0>>, upper_global |-> <<8, 8>>],
       q0 |-> <<0, 3>>, aux0 |-> <<10, 12>>],
      [patch |-> [level |-> 2, delta |-> <<2, 2>>,
                  lower_global |-> <<2, 2>>, upper_global |-> <<6, 4>>],
       q0 |-> <<5, 1>>, aux0 |-> <<11, 15>>],
      [patch |-> [level |-> 2, delta |-> <<1, 1>>,
                  lower_global |-> <<1, 3>>, upper_global |-> <<4, 7>>],
       q0 |-> <<2, 4>>, aux0 |-> <<13, 9>>] }

\* the AMR levels a scan may ask for
Levels == {1, 2}

\* patches of one frame, in file order; a patch occurs once in a frame
PatchLists ==
    UNION { {ps \in [1..n -> PatchPool] : \A i, j \in 1..n : i # j => ps[i] # ps[j]}
            : n \in 0..MaxPatches }

FramesOnDisk == [aux_file : BOOLEAN, patches : PatchLists]

\* pathlib's is_file() of fort.a<NNNN>
AuxIsFile(f) == soln_dir[f + 1].aux_file

\* pyclaw.Solution.read(f, ..., read_aux): the states of frame f in file order
Read(f, read_aux) ==
    [i \in DOMAIN soln_dir[f + 1].patches |->
        [patch |-> soln_dir[f + 1].patches[i].patch,
         q0 |-> soln_dir[f + 1].patches[i].q0,
         aux0 |-> IF read_aux THEN soln_dir[f + 1].patches[i].aux0 ELSE <<>>]]

ReadCall(f, read_aux) == [fno |-> f, read_aux |-> read_aux]

\* ---- get_soln_extent
RECURSIVE extent_states(_, _, _)

\* a scan that also takes the patches of coarser levels
extent_states_upto(extent, states, level) ==
    IF states = <<>> THEN extent
    ELSE LET p == Head(states).patch
         IN  extent_states(
                IF p.level > level THEN extent
                ELSE <<PyMin(extent[1], Fin(p.lower_global[1])),
                       PyMin(extent[2], Fin(p.lower_global[2])),
                       PyMax(extent[3], Fin(p.upper_global[1])),
                       PyMax(extent[4], Fin(p.upper_global[2]))>>,
                Tail(states), level)

extent_states(extent, states, level) ==
    IF states = <<>> THEN extent
    ELSE LET p == Head(states).patch
         IN  extent_states(
                IF p.level # level THEN extent
                ELSE <<PyMin(extent[1], Fin(p.lower_global[1])),
                       PyMin(extent[2], Fin(p.lower_global[2])),
                       PyMax(extent[3], Fin(p.upper_global[1])),
                       PyMax(extent[4], Fin(p.upper_global[2]))>>,
                Tail(states), level)

RECURSIVE extent_frames(_, _, _, _)
extent_frames(acc, f, frame_ed, level) ==
    IF f >= frame_ed THEN acc
    ELSE extent_frames(
            [value |-> extent_states(acc.value, Read(f, AuxIsFile(f)), level),
             reads |-> Append(acc.reads, ReadCall(f, AuxIsFile(f)))],
            f + 1, frame_ed, level)

get_soln_extent(frame_bg, frame_ed, level) ==
    LET r == extent_frames([value |-> <<PosInf, PosInf, NegInf, NegInf>>, reads |-> <<>>],
                           frame_bg, frame_ed, level)
    IN  [fn |-> "get_soln_extent", level |-> level, raised |-> "none",
         value |-> r.value, reads |-> r.reads]

\* ---- get_soln_res
RECURSIVE res_states(_, _)

\* a scan that keeps the last patch of the level it meets in a frame
res_states_last(states, level) ==
    IF states = <<>> THEN [found |-> FALSE, delta |-> <<>>]
    ELSE LET r == res_states(Tail(states), level)
         IN  IF r.found THEN r
             ELSE IF Head(states).patch.level = level
                  THEN [found |-> TRUE, delta |-> Head(states).patch.delta]
                  ELSE r

res_states(states, level) ==
    IF states = <<>> THEN [found |-> FALSE, delta |-> <<>>]
    ELSE IF Head(states).patch.level = level
         THEN [found |-> TRUE, delta |-> Head(states).patch.delta]
         ELSE res_states(Tail(states), level)

RECURSIVE res_frames(_, _, _, _)
res_frames(reads, f, frame_ed, level) ==
    IF f >= frame_ed
    THEN [raised |-> "AMRLevelError", value |-> <<>>, reads |-> reads]
    ELSE LET r == res_states(Read(f, AuxIsFile(f)), level)
             rd == Append(reads, ReadCall(f, AuxIsFile(f)))
         IN  IF r.found THEN [raised |-> "none", value |-> r.delta, reads |-> rd]
             ELSE res_frames(rd, f + 1, frame_ed, level)

get_soln_res(frame_bg, frame_ed, level) ==
    LET r == res_frames(<<>>, frame_bg, frame_ed, level)
    IN  [fn |-> "get_soln_res", level |-> level, raised |-> r.raised,
         value |-> r.value, reads |-> r.reads]

\* ---- get_soln_min / get_soln_max
RECURSIVE soln_min_states(_, _, _)
soln_min_states(vmin, states, level) ==
    IF states = <<>> THEN vmin
    ELSE soln_min_states(
            IF Head(states).patch.level # level THEN vmin
            ELSE PyMin(vmin, Fin(ArrayMin(Head(states).q0))),
            Tail(states), level)

RECURSIVE soln_min_frames(_, _, _, _)
soln_min_frames(acc, f, frame_ed, level) ==
    IF f >= frame_ed THEN acc
    ELSE soln_min_frames(
            [value |-> soln_min_states(acc.value, Read(f, AuxIsFile(f)), level),
             reads |-> Append(acc.reads, ReadCall(f, AuxIsFile(f)))],
            f + 1, frame_ed, level)

get_soln_min(frame_bg, frame_ed, level) ==
    LET r == soln_min_frames([value |-> PosInf, reads |-> <<>>], frame_bg, frame_ed, level)
    IN  [fn |-> "get_soln_min", level |-> level, raised |-> "none",
         value |-> r.value, reads |-> r.reads]

RECURSIVE soln_max_states(_, _, _)
soln_max_states(vmax, states, level) ==
    IF states = <<>> THEN vmax
    ELSE soln_max_states(
            IF Head(states).patch.level # level THEN vmax
            ELSE PyMax(vmax, Fin(ArrayMax(Head(states).q0))),
            Tail(states), level)

RECURSIVE soln_max_frames(_, _, _, _)
soln_max_frames(acc, f, frame_ed, level) ==
    IF f >= frame_ed THEN acc
    ELSE soln_max_frames(
            [value |-> soln_max_states(acc.value, Read(f, AuxIsFile(f)), level),
             reads |-> Append(acc.reads, ReadCall(f, AuxIsFile(f)))],
            f + 1, frame_ed, level)

get_soln_max(frame_bg, frame_ed, level) ==
    LET r == soln_max_frames([value |-> NegInf, reads |-> <<>>], frame_bg, frame_ed, level)
    IN  [fn |-> "get_soln_max", level |-> level, raised |-> "none",
         value |-> r.value, reads |-> r.reads]

\* ---- get_topo_min / get_topo_max
RECURSIVE topo_min_states(_, _, _)
topo_min_states(vmin, states, level) ==
    IF states = <<>> THEN vmin
    ELSE topo_min_states(
            IF Head(states).patch.level # level THEN vmin
            ELSE PyMin(vmin, Fin(ArrayMin(Head(states).aux0))),
            Tail(states), level)

RECURSIVE topo_min_frames(_, _, _, _)
topo_min_frames(acc, f, frame_ed, level) ==
    IF f >= frame_ed THEN acc
    ELSE IF ~AuxIsFile(f) THEN topo_min_frames(acc, f + 1, frame_ed, level)
    ELSE topo_min_frames(
            [value |-> topo_min_states(acc.value, Read(f, TRUE), level),
             reads |-> Append(acc.reads, ReadCall(f, TRUE))],
            f + 1, frame_ed, level)

\* a get_topo_min without the final test of the extremum
get_topo_min_nocheck(frame_bg, frame_ed, level) ==
    LET r == topo_min_frames([value |-> PosInf, reads |-> <<>>], frame_bg, frame_ed, level)
    IN  [fn |-> "get_topo_min", level |-> level, raised |-> "none",
         value |-> r.value, reads |-> r.reads]

get_topo_min(frame_bg, frame_ed, level) ==
    LET r == topo_min_frames([value |-> PosInf, reads |-> <<>>], frame_bg, frame_ed, level)
    IN  IF r.value = PosInf
        THEN [fn |-> "get_topo_min", level |-> level, raised |-> "NoFrameDataError",
              value |-> r.value, reads |-> r.reads]
        ELSE [fn |-> "get_topo_min", level |-> level, raised |-> "none",
              value |-> r.value, reads |-> r.reads]

RECURSIVE topo_max_states(_, _, _)
topo_max_states(vmax, states, level) ==
    IF states = <<>> THEN vmax
    ELSE topo_max_states(
            IF Head(states).patch.level # level THEN vmax
            ELSE PyMax(vmax, Fin(ArrayMax(Head(states).aux0))),
            Tail(states), level)

RECURSIVE topo_max_frames(_, _, _, _)
topo_max_frames(acc, f, frame_ed, level) ==
    IF f >= frame_ed THEN acc
    ELSE IF ~AuxIsFile(f) THEN topo_max_frames(acc, f + 1, frame_ed, level)
    ELSE topo_max_frames(
            [value |-> topo_max_states(acc.value, Read(f, TRUE), level),
             reads |-> Append(acc.reads, ReadCall(f, TRUE))],
            f + 1, frame_ed, level)

get_topo_max(frame_bg, frame_ed, level) ==
    LET r == topo_max_frames([value |-> NegInf, reads |-> <<>>], frame_bg, frame_ed, level)
    IN  IF r.value = NegInf
        THEN [fn |-> "get_topo_max", level |-> level, raised |-> "NoFrameDataError",
              value |-> r.value, reads |-> r.reads]
        ELSE [fn |-> "get_topo_max", level |-> level, raised |-> "none",
              value |-> r.value, reads |-> r.reads]

InitScan ==
    /\ soln_dir \in [1..NumFrames -> FramesOnDisk]
    /\ query \in [frame_bg : 0..NumFrames, frame_ed : 0..NumFrames]
    /\ result = [fn |-> "none"]

call_get_soln_extent ==
    /\ result.fn = "none"
    /\ \E level \in Levels :
          result' = get_soln_extent(query.frame_bg, query.frame_ed, level)
    /\ UNCHANGED <<soln_dir, query>>

call_get_soln_res ==
    /\ result.fn = "none"
    /\ \E level \in Levels :
          result' = get_soln_res(query.frame_bg, query.frame_ed, level)
    /\ UNCHANGED <<soln_dir, query>>

call_get_soln_min ==
    /\ result.fn = "none"
    /\ \E level \in Levels :
          result' = get_soln_min(query.frame_bg, query.frame_ed, level)
    /\ UNCHANGED <<soln_dir, query>>

call_get_soln_max ==
    /\ result.fn = "none"
    /\ \E level \in Levels :
          result' = get_soln_max(query.frame_bg, query.frame_ed, level)
    /\ UNCHANGED <<soln_dir, query>>

call_get_topo_min ==
    /\ result.fn = "none"
    /\ \E level \in Levels :
          result' = get_topo_min(query.frame_bg, query.frame_ed, level)
    /\ UNCHANGED <<soln_dir, query>>

call_get_topo_max ==
    /\ result.fn = "none"
    /\ \E level \in Levels :
          result' = get_topo_max(query.frame_bg, query.frame_ed, level)
    /\ UNCHANGED <<soln_dir, query>>

NextScan ==
    \/ call_get_soln_extent /\ UNCHANGED resolverVars /\ UNCHANGED pipelineVars
         /\ UNCHANGED laterVars
    \/ call_get_soln_res /\ UNCHANGED resolverVars /\ UNCHANGED pipelineVars
         /\ UNCHANGED laterVars
    \/ call_get_soln_min /\ UNCHANGED resolverVars /\ UNCHANGED pipelineVars
         /\ UNCHANGED laterVars
    \/ call_get_soln_max /\ UNCHANGED resolverVars /\ UNCHANGED pipelineVars
         /\ UNCHANGED laterVars
    \/ call_get_topo_min /\ UNCHANGED resolverVars /\ UNCHANGED pipelineVars
         /\ UNCHANGED laterVars
    \/ call_get_topo_max /\ UNCHANGED resolverVars /\ UNCHANGED pipelineVars
         /\ UNCHANGED laterVars

StartScan == InitScan /\ IdleResolver /\ IdlePipeline /\ IdleLater

SpecScan == StartScan /\ [][NextScan]_vars

(***************************************************************************)
(* MosaicInterpolator: interpolate of _postprocessing/calc.py and of the   *)
(* one-file _postprocessing.py                                             *)
(***************************************************************************)
GridSize == 2      \* the output raster is GridSize x GridSize cells of size 1
MaxDepth == 2      \* q[0] of a cell is 0..MaxDepth

\* the default of the nodata argument
nodata == -9999

\* extent and res every call of the model passes: (xmin, ymin, xmax, ymax)
MosaicExtent == <<0, 0, GridSize, GridSize>>
MosaicRes == 1

\* q[0] of a patch with nx x ny cells, indexed [i][j] (x first, y upwards)
Field(nx, ny, a) ==
    [i \in 1..nx |-> [j \in 1..ny |-> (a + i + 2 * j) % (MaxDepth + 1)]]

\* a state whose patch is a full-height strip of nx columns of cells of size 1
Strip(l, x, nx, a) ==
    [patch |-> [level |-> l, delta |-> <<1, 1>>,
                lower_global |-> <<x, 0>>, upper_global |-> <<x + nx, GridSize>>,
                num_cells_global |-> <<nx, GridSize>>],
     q0 |-> Field(nx, GridSize, a)]

\* the states a frame may hold
MosaicStates ==
    { Strip(t[1], t[2], t[3], t[4])
      : t \in { t \in Levels \X (0..GridSize - 1) \X (1..GridSize) \X (0..1)
                  : t[2] + t[3] <= GridSize } }

Solutions == UNION { [1..n -> MosaicStates] : n \in 0..MaxPatches }

\* rasterio.transform.from_origin(west, north, xsize, ysize) and the raster
\* written with state.q[0].T[::-1, :]: row 1 is the northernmost row
ChildRaster(state) ==
    LET ny == state.patch.num_cells_global[2]
        nx == state.patch.num_cells_global[1]
    IN  [transform |-> [west |-> state.patch.lower_global[1],
                        north |-> state.patch.upper_global[2],
                        xsize |-> state.patch.delta[1],
                        ysize |-> state.patch.delta[2]],
         height |-> ny, width |-> nx,
         band |-> [r \in 1..ny |-> [c \in 1..nx |-> state.q0[c][ny + 1 - r]]]]

\* the loop over soln.states that builds child_rasters
RECURSIVE child_rasters(_, _)
\* a loop that turns every patch into a raster, whatever its level
child_rasters_anylevel(states, level) ==
    [i \in DOMAIN states |-> ChildRaster(states[i])]

child_rasters(states, level) ==
    IF states = <<>> THEN <<>>
    ELSE IF Head(states).patch.level # level THEN child_rasters(Tail(states), level)
    ELSE <<ChildRaster(Head(states))>> \o child_rasters(Tail(states), level)

\* rasterio.merge.merge of rasters whose cells have the output's size: a cell
\* takes the value of the first dataset that covers it with a valid value
RECURSIVE MergeCell(_, _, _, _)
MergeCell(datasets, x, north, nd) ==
    IF datasets = <<>> THEN nd
    ELSE LET d == Head(datasets)
             c == (x - d.transform.west) \div d.transform.xsize + 1
             r == (d.transform.north - north) \div d.transform.ysize + 1
         IN  IF /\ c \in 1..d.width
                /\ r \in 1..d.height
                /\ d.band[r][c] # nd
             THEN d.band[r][c]
             ELSE MergeCell(Tail(datasets), x, north, nd)

\* what the merge library may fail with besides the empty list of datasets
Faults == {"none", "IndexError", "MemoryError", "RasterioIOError"}

merge(datasets, bounds, res, nd, fault) ==
    IF datasets = <<>>
    THEN [raised |-> "IndexError", msg |-> "list index out of range", dst |-> <<>>]
    ELSE IF fault = "IndexError"
    THEN [raised |-> "IndexError", msg |-> "index out of bounds", dst |-> <<>>]
    ELSE IF fault # "none"
    THEN [raised |-> fault, msg |-> "", dst |-> <<>>]
    ELSE [raised |-> "none", msg |-> "",
          dst |-> [R \in 1..(bounds[4] - bounds[2]) \div res |->
                     [C \in 1..(bounds[3] - bounds[1]) \div res |->
                        MergeCell(datasets, bounds[1] + (C - 1) * res,
                                  bounds[4] - (R - 1) * res, nd)]]]

\* a filter that also drops the cells equal to dry_tol
FilterDryStrict(dst, dry_tol, nd) ==
    [R \in DOMAIN dst |-> [C \in DOMAIN dst[R] |->
        IF dst[R][C] <= dry_tol THEN nd ELSE dst[R][C]]]

\* dst[dst < dry_tol] = nodata
FilterDry(dst, dry_tol, nd) ==
    [R \in DOMAIN dst |-> [C \in DOMAIN dst[R] |->
        IF dst[R][C] < dry_tol THEN nd ELSE dst[R][C]]]

\* the memory files and rasters left open by the loop over soln.states: the
\* fault "RasterioIOError" makes memfiles[-1].open(...) fail for the last patch
\* at the level, after its MemoryFile was appended
open_child_rasters(states, level, fault) ==
    LET rasters == child_rasters(states, level)
    IN  IF fault = "RasterioIOError" /\ rasters # <<>>
        THEN [raised |-> fault, memfiles |-> Len(rasters),
              rasters |-> Len(rasters) - 1]
        ELSE [raised |-> "none", memfiles |-> Len(rasters),
              rasters |-> Len(rasters)]

\* gclandspill/_postprocessing/calc.py
interpolate(states, level, dry_tol, extent, res, nd, fault) ==
    LET rasters == child_rasters(states, level)
        built == open_child_rasters(states, level, fault)
        m == merge(rasters, extent, res, nd, fault)
        opened == built.memfiles + built.rasters
    IN  IF built.raised # "none"
        THEN [fn |-> "calc.interpolate", level |-> level,
              raised |-> built.raised, dst |-> <<>>,
              opened |-> opened, closed |-> 0]
        ELSE IF m.raised = "IndexError" /\ m.msg = "list index out of range"
        THEN [fn |-> "calc.interpolate", level |-> level,
              raised |-> "NoWetCellError", dst |-> <<>>,
              opened |-> opened, closed |-> 0]
        ELSE IF m.raised # "none"
        THEN [fn |-> "calc.interpolate", level |-> level,
              raised |-> m.raised, dst |-> <<>>,
              opened |-> opened, closed |-> 0]
        ELSE [fn |-> "calc.interpolate", level |-> level, raised |-> "none",
              dst |-> FilterDry(m.dst, dry_tol, nd),
              opened |-> opened, closed |-> opened]

\* geoclaw-landspill/_postprocessing.py: no try around the merge
postprocessing_interpolate(states, level, dry_tol, extent, res, nd, fault) ==
    LET rasters == child_rasters(states, level)
        built == open_child_rasters(states, level, fault)
        m == merge(rasters, extent, res, nd, fault)
        opened == built.memfiles + built.rasters
    IN  IF built.raised # "none"
        THEN [fn |-> "_postprocessing.interpolate", level |-> level,
              raised |-> built.raised, dst |-> <<>>,
              opened |-> opened, closed |-> 0]
        ELSE IF m.raised # "none"
        THEN [fn |-> "_postprocessing.interpolate", level |-> level,
              raised |-> m.raised, dst |-> <<>>,
              opened |-> opened, closed |-> 0]
        ELSE [fn |-> "_postprocessing.interpolate", level |-> level, raised |-> "none",
              dst |-> FilterDry(m.dst, dry_tol, nd),
              opened |-> opened, closed |-> opened]

InitMosaic ==
    /\ soln \in Solutions
    /\ interp_args \in [dry_tol : 0..MaxDepth + 1, fault : Faults]
    /\ interp_out = [fn |-> "none"]

call_interpolate ==
    /\ interp_out.fn = "none"
    /\ \E level \in Levels :
          interp_out' = interpolate(soln, level, interp_args.dry_tol,
                                    MosaicExtent, MosaicRes, nodata, interp_args.fault)
    /\ UNCHANGED <<soln, interp_args>>

call_postprocessing_interpolate ==
    /\ interp_out.fn = "none"
    /\ \E level \in Levels :
          interp_out' = postprocessing_interpolate(soln, level, interp_args.dry_tol,
                                                   MosaicExtent, MosaicRes, nodata,
                                                   interp_args.fault)
    /\ UNCHANGED <<soln, interp_args>>

NextMosaic ==
    \/ call_interpolate /\ UNCHANGED notMosaicVars
    \/ call_postprocessing_interpolate /\ UNCHANGED notMosaicVars

StartMosaic == InitMosaic /\ IdleNotMosaic

SpecMosaic == StartMosaic /\ [][NextMosaic]_vars

(***************************************************************************)
(* VolumeAccumulator: get_total_volume and create_volume_csv               *)
(***************************************************************************)
MaxLevels == 2     \* n_levels (amr_levels_max) is 1..MaxLevels

\* the grid patches of the solution files: level, cell size and q[0]
VolumePool ==
    { [patch |-> [level |-> 1, delta |-> <<4, 4>>], q0 |-> <<<<3, 3>>, <<3, 3>>>>],
      [patch |-> [level |-> 2, delta |-> <<2, 2>>], q0 |-> <<<<5, 1>>>>],
      [patch |-> [level |-> 2, delta |-> <<1, 2>>], q0 |-> <<<<2, 0, 4>>, <<1, 0, 0>>>>] }

VolumeLists ==
    UNION { {ps \in [1..n -> VolumePool] : \A i, j \in 1..n : i # j => ps[i] # ps[j]}
            : n \in 0..MaxPatches }

\* numpy's array.sum() of a 1D and of a 2D array
RECURSIVE Sum1(_)
Sum1(a) == IF a = <<>> THEN 0 ELSE Head(a) + Sum1(Tail(a))

RECURSIVE Sum2(_)
Sum2(a) == IF a = <<>> THEN 0 ELSE Sum1(Head(a)) + Sum2(Tail(a))

\* a loop that leaves the cell area out
RECURSIVE volume_states(_, _)
volume_states_noarea(row, states) ==
    IF states = <<>> \/ row = <<>> THEN row
    ELSE LET p == Head(states).patch
         IN  IF p.level > Len(row) THEN <<>>
             ELSE volume_states(
                    [row EXCEPT ![p.level] = @ + Sum2(Head(states).q0)],
                    Tail(states))

\* the loop over soln.states: ans[ifno][p.level-1] += q[0].sum() * dx * dy;
\* row is <<>> once an index was out of range
volume_states(row, states) ==
    IF states = <<>> \/ row = <<>> THEN row
    ELSE LET p == Head(states).patch
         IN  IF p.level > Len(row) THEN <<>>
             ELSE volume_states(
                    [row EXCEPT ![p.level] =
                        @ + Sum2(Head(states).q0) * p.delta[1] * p.delta[2]],
                    Tail(states))

\* a read that probes for the aux file as the scans do
volume_read_aux_probe(is_file) == is_file

\* soln.read(fno, str(soln_dir), file_format="binary", read_aux=False)
volume_read_aux(is_file) == FALSE

\* the loop over range(frame_bg, frame_ed); reads lists the soln.read calls
RECURSIVE volume_frames(_, _, _, _)
volume_frames(dir, f, frame_ed, n_levels) ==
    IF f >= frame_ed THEN [raised |-> "none", ans |-> <<>>, reads |-> <<>>]
    ELSE LET row == volume_states([l \in 1..n_levels |-> 0], dir[f + 1])
             rest == volume_frames(dir, f + 1, frame_ed, n_levels)
             read == ReadCall(f, volume_read_aux(f \in vol_aux))
         IN  IF row = <<>>
             THEN [raised |-> "IndexError", ans |-> <<>>, reads |-> <<read>>]
             ELSE IF rest.raised # "none"
             THEN [rest EXCEPT !.reads = <<read>> \o @]
             ELSE [raised |-> "none", ans |-> <<row>> \o rest.ans,
                   reads |-> <<read>> \o rest.reads]

get_total_volume(dir, frame_bg, frame_ed, n_levels) ==
    volume_frames(dir, frame_bg, frame_ed, n_levels)

\* "frame" + ",level {}" * n formatted with 1..n, as comma-separated fields
HeaderLine(n) == <<"frame">> \o [l \in 1..n |-> <<"level", l>>]

\* a row without the frame number
RowLineNoFrame(f, row, n) == [l \in 1..n |-> row[l]]

\* "{}" + ",{}" * n formatted with (fno, *row), as comma-separated fields
RowLine(f, row, n) == <<f>> \o [l \in 1..n |-> row[l]]

\* len(range(frame_bg, frame_ed))
RangeLen(frame_bg, frame_ed) == IF frame_ed > frame_bg THEN frame_ed - frame_bg ELSE 0

\* the aux files of a run: none, that of frame 0 only, or one per frame
AuxLayouts == {{}, {0}, 0..NumFrames - 1}

InitVolume ==
    /\ vol_dir \in [1..NumFrames -> VolumeLists]
    /\ vol_aux \in AuxLayouts
    /\ vol_args = [frame_bg |-> 0, frame_ed |-> 0, level |-> 1]
    /\ data = [fn |-> "none"]
    /\ csv_file = [exists |-> FALSE, lines |-> <<>>]

call_get_total_volume ==
    /\ data.fn = "none"
    /\ \E frame_bg, frame_ed \in 0..NumFrames, n_levels \in 1..MaxLevels :
          LET r == get_total_volume(vol_dir, frame_bg, frame_ed, n_levels)
          IN  /\ vol_args' = [frame_bg |-> frame_bg, frame_ed |-> frame_ed,
                              level |-> n_levels]
              /\ data' = [fn |-> "get_total_volume", raised |-> r.raised,
                          ans |-> r.ans, reads |-> r.reads]
    /\ UNCHANGED <<vol_dir, vol_aux, csv_file>>

create_volume_csv ==
    /\ data.fn = "none"
    /\ \E frame_bg, frame_ed \in 0..NumFrames, level \in 1..MaxLevels :
          LET r == get_total_volume(vol_dir, frame_bg, frame_ed, level)
          IN  /\ vol_args' = [frame_bg |-> frame_bg, frame_ed |-> frame_ed,
                              level |-> level]
              /\ data' = [fn |-> "create_volume_csv", raised |-> r.raised,
                          ans |-> r.ans, reads |-> r.reads]
              /\ csv_file' =
                    IF r.raised # "none" THEN csv_file
                    ELSE [exists |-> TRUE,
                          lines |-> <<HeaderLine(level)>> \o
                                    [k \in 1..RangeLen(frame_bg, frame_ed) |->
                                        RowLine(frame_bg + k - 1, r.ans[k], level)]]
    /\ UNCHANGED <<vol_dir, vol_aux>>

NextVolume ==
    \/ call_get_total_volume /\ UNCHANGED notVolumeVars
    \/ create_volume_csv /\ UNCHANGED notVolumeVars

StartVolume == InitVolume /\ IdleNotVolume

SpecVolume == StartVolume /\ [][NextVolume]_vars

(***************************************************************************)
(* TimeSeriesRasterWriter: convert_to_netcdf, init_nc_file and             *)
(* write_soln_to_nc of _postprocessing/netcdf.py and of _postprocessing.py *)
(***************************************************************************)

\* the solutions a frame file may hold: one patch spanning the extent at
\* level 1, one at level 2, or a level-1 patch followed by a level-2 strip
WriterSolutions ==
    { <<Strip(1, 0, GridSize, 1)>>,
      <<Strip(2, 0, GridSize, 1)>>,
      <<Strip(1, 0, GridSize, 1), Strip(2, 0, 1, 0)>> }

\* fort.q<NNNN> of a frame: whether it exists, whether fort.a<NNNN> exists,
\* the time and the states it holds, and how the merge library fails on it
WriterFrames ==
    [exists : {TRUE}, aux_file : BOOLEAN, t : {0}, states : WriterSolutions,
     fault : {"none", "MemoryError"}]
    \cup [exists : {FALSE}, aux_file : {FALSE}, t : {0}, states : {<<>>},
          fault : {"none"}]

\* the solver writes frame f at time 60 * f
WriterDirs ==
    { [f \in 1..NumFrames |-> [fr[f] EXCEPT !.t = 60 * (f - 1)]]
      : fr \in [1..NumFrames -> WriterFrames] }

\* a slice of zeros
ZeroSlice(height, width, nd) == [R \in 1..height |-> [C \in 1..width |-> 0]]

\* root["depth"][band, :, :] = nodata
NodataSlice(height, width, nd) == [R \in 1..height |-> [C \in 1..width |-> nd]]

\* an assignment that always lands in band 0
SetBandZero(v, band, value) ==
    [b \in (DOMAIN v) \cup {0} |-> IF b = 0 THEN value ELSE v[b]]

\* v[band] = value of a NetCDF variable with an unlimited first dimension
SetBand(v, band, value) ==
    [b \in (DOMAIN v) \cup {band} |-> IF b = band THEN value ELSE v[b]]

\* "except _misc.NoWetCellError" of netcdf.py; the write_soln_to_nc of
\* _postprocessing.py has no try
except_any(raised, module) == raised # "none"

except_NoWetCellError(raised, module) ==
    raised = "NoWetCellError" /\ module = "netcdf"

\* --extent and --res as given on the command line
SuppliedExtent == <<Fin(MosaicExtent[1]), Fin(MosaicExtent[2]),
                    Fin(MosaicExtent[3]), Fin(MosaicExtent[4])>>

\* createnc with --extent and --res given
InitWriter ==
    /\ nc_dir \in WriterDirs
    /\ nc_args \in [module : {"netcdf", "_postprocessing"},
                    frame_bg : 0..NumFrames, frame_ed : 0..NumFrames,
                    level : Levels, dry_tol : {1, MaxDepth + 1},
                    extent : {Some(SuppliedExtent)}, res : {Some(MosaicRes)}]
    /\ root = [exists |-> FALSE, creates |-> 0, opens |-> 0, closes |-> 0,
               is_open |-> FALSE, x |-> 0, y |-> 0, nc_x |-> <<>>, nc_y |-> <<>>,
               crs |-> "none", time |-> <<>>, depth |-> <<>>]
    /\ writer = [pc |-> "convert_to_netcdf", band |-> 0, raised |-> "none",
                 log |-> <<>>, extent |-> <<>>, res |-> 0]

\* the folder as the scans of calc.py read it: a frame without fort.q<NNNN>
\* has no states
ScanView(dir) ==
    [f \in DOMAIN dir |->
        [aux_file |-> dir[f].aux_file,
         patches |-> [i \in DOMAIN dir[f].states |->
                         [patch |-> dir[f].states[i].patch,
                          q0 |-> dir[f].states[i].q0, aux0 |-> <<>>]]]]

\* soln.read of a scan fails on the first frame whose fort.q<NNNN> is missing
ReadsMissing(reads) ==
    \E k \in DOMAIN reads : ~nc_dir[reads[k].fno + 1].exists

\* if args.extent is None: args.extent = get_soln_extent(...)
args_extent(given, scanned) ==
    IF given.given THEN [raised |-> "none", value |-> given.val]
    ELSE IF ReadsMissing(scanned.reads) THEN [raised |-> "FileNotFound", value |-> <<>>]
    ELSE [raised |-> "none", value |-> scanned.value]

\* if args.res is None: args.res = min(get_soln_res(...))
args_res(given, scanned) ==
    IF given.given THEN [raised |-> "none", value |-> given.val]
    ELSE IF ReadsMissing(scanned.reads) THEN [raised |-> "FileNotFound", value |-> 0]
    ELSE IF scanned.raised # "none" THEN [raised |-> scanned.raised, value |-> 0]
    ELSE [raised |-> "none", value |-> PyMin(Fin(scanned.value[1]),
                                             Fin(scanned.value[2])).val]

\* convert_to_netcdf up to the call of init_nc_file
convert_to_netcdf ==
    /\ writer.pc = "convert_to_netcdf"
    /\ LET e == args_extent(nc_args.extent,
                            get_soln_extent(nc_args.frame_bg, nc_args.frame_ed,
                                            nc_args.level))
           r == args_res(nc_args.res,
                         get_soln_res(nc_args.frame_bg, nc_args.frame_ed,
                                      nc_args.level))
       IN  writer' =
              IF e.raised # "none"
              THEN [writer EXCEPT !.pc = "raised", !.raised = e.raised]
              ELSE IF r.raised # "none"
              THEN [writer EXCEPT !.pc = "raised", !.raised = r.raised,
                                  !.extent = e.value]
              ELSE [writer EXCEPT !.pc = "init_nc_file", !.extent = e.value,
                                  !.res = r.value]
    /\ UNCHANGED <<nc_dir, nc_args, root>>

IsFinite(extent) == \A k \in DOMAIN extent : extent[k].inf = 0
Bounds(extent) == [k \in DOMAIN extent |-> extent[k].val]

\* how init_nc_file ends when it is given an extent of infinities: the window
\* computation fails before the file is created, or the file is created and
\* defining its dimensions fails
InfiniteExtentErrors == {"WindowError", "ValueError"}

\* init_nc_file: create the file, its dimensions, variables, coordinates and
\* CRS, close it; nc_x and nc_y hold twice the cell-centre coordinates
init_nc_file ==
    /\ writer.pc = "init_nc_file"
    /\ \E error \in InfiniteExtentErrors :
          IF IsFinite(writer.extent)
          THEN LET b == Bounds(writer.extent)
                   width == (b[3] - b[1]) \div writer.res
                   height == (b[4] - b[2]) \div writer.res
               IN  /\ root' = [exists |-> TRUE, creates |-> root.creates + 1,
                               opens |-> root.opens + 1, closes |-> root.closes + 1,
                               is_open |-> FALSE, x |-> width, y |-> height,
                               nc_x |-> [c \in 1..width |->
                                            2 * b[1] + (2 * c - 1) * writer.res],
                               nc_y |-> [r \in 1..height |->
                                            2 * b[4] - (2 * r - 1) * writer.res],
                               crs |-> "EPSG:3857",
                               time |-> <<>>, depth |-> <<>>]
                   /\ writer' = [writer EXCEPT !.pc = "write_soln_to_nc"]
          ELSE /\ root' = IF error = "WindowError" THEN root
                          ELSE [root EXCEPT !.exists = TRUE, !.creates = @ + 1,
                                            !.opens = @ + 1, !.is_open = TRUE]
               /\ writer' = [writer EXCEPT !.pc = "raised", !.raised = error]
    /\ UNCHANGED <<nc_dir, nc_args>>

\* write_soln_to_nc up to its loop: open the file in mode r+; an empty range
\* goes straight to root.close()
write_soln_to_nc ==
    /\ writer.pc = "write_soln_to_nc"
    /\ IF RangeLen(nc_args.frame_bg, nc_args.frame_ed) = 0
       THEN /\ root' = [root EXCEPT !.opens = @ + 1, !.closes = @ + 1]
            /\ writer' = [writer EXCEPT !.pc = "done"]
       ELSE /\ root' = [root EXCEPT !.opens = @ + 1, !.is_open = TRUE]
            /\ writer' = [writer EXCEPT !.pc = "loop", !.band = 0]
    /\ UNCHANGED <<nc_dir, nc_args>>

\* a loop end that leaves the file open
NextBandNoClose(r, w) ==
    IF w.band + 1 < RangeLen(nc_args.frame_bg, nc_args.frame_ed)
    THEN /\ root' = r
         /\ writer' = [w EXCEPT !.band = @ + 1]
    ELSE /\ root' = r
         /\ writer' = [w EXCEPT !.pc = "done"]

\* what follows the body of the loop: the next band, or root.close()
NextBand(r, w) ==
    IF w.band + 1 < RangeLen(nc_args.frame_bg, nc_args.frame_ed)
    THEN /\ root' = r
         /\ writer' = [w EXCEPT !.band = @ + 1]
    ELSE /\ root' = [r EXCEPT !.closes = @ + 1, !.is_open = FALSE]
         /\ writer' = [w EXCEPT !.pc = "done"]

\* an interpolation onto the default extent instead of the one handed over
depth_extent_default(extent) == SuppliedExtent

\* the extent write_soln_to_nc hands to interpolate
depth_extent(extent) == extent

\* one pass of "for band, fno in enumerate(range(frame_bg, frame_ed))"
write_frame ==
    /\ writer.pc = "loop"
    /\ LET band == writer.band
           f == nc_args.frame_bg + band
           frame == IF f + 1 \in DOMAIN nc_dir THEN nc_dir[f + 1]
                    ELSE [exists |-> FALSE]
       IN  IF ~frame.exists
           THEN \* soln.read fails before anything is written
                /\ writer' = [writer EXCEPT !.pc = "raised", !.raised = "FileNotFound"]
                /\ root' = root
           ELSE LET timed == [root EXCEPT !.time = SetBand(@, band, frame.t)]
                    logt == [writer EXCEPT !.log =
                                Append(@, [var |-> "time", band |-> band, fno |-> f,
                                           read_aux |-> frame.aux_file,
                                           extent |-> <<>>, res |-> 0])]
                    extent == depth_extent(writer.extent)
                    out == IF nc_args.module = "netcdf"
                           THEN interpolate(frame.states, nc_args.level, nc_args.dry_tol,
                                            Bounds(extent), writer.res, nodata,
                                            frame.fault)
                           ELSE postprocessing_interpolate(
                                            frame.states, nc_args.level, nc_args.dry_tol,
                                            Bounds(extent), writer.res, nodata,
                                            frame.fault)
                    logd == [logt EXCEPT !.log =
                                Append(@, [var |-> "depth", band |-> band, fno |-> f,
                                           read_aux |-> frame.aux_file,
                                           extent |-> extent, res |-> writer.res])]
                IN  IF out.raised = "none"
                    THEN NextBand([timed EXCEPT !.depth = SetBand(@, band, out.dst)],
                                  logd)
                    ELSE IF except_NoWetCellError(out.raised, nc_args.module)
                    THEN NextBand([timed EXCEPT !.depth =
                                      SetBand(@, band, NodataSlice(root.y, root.x, nodata))],
                                  logd)
                    ELSE /\ root' = timed
                         /\ writer' = [logt EXCEPT !.pc = "raised",
                                                   !.raised = out.raised]
    /\ UNCHANGED <<nc_dir, nc_args>>

NextWriter ==
    \/ convert_to_netcdf /\ UNCHANGED notWriterVars
    \/ init_nc_file /\ UNCHANGED notWriterVars
    \/ write_soln_to_nc /\ UNCHANGED notWriterVars
    \/ write_frame /\ UNCHANGED notWriterVars

StartWriter == InitWriter /\ IdleNotWriter

SpecWriter == StartWriter /\ [][NextWriter]_vars

\* createnc with --extent and --res given or left to be inferred
CreatencFrames ==
    [exists : {TRUE}, aux_file : {FALSE}, t : {0}, states : WriterSolutions,
     fault : {"none"}]
    \cup [exists : {FALSE}, aux_file : {FALSE}, t : {0}, states : {<<>>},
          fault : {"none"}]

CreatencDirs ==
    { [f \in 1..NumFrames |-> [fr[f] EXCEPT !.t = 60 * (f - 1)]]
      : fr \in [1..NumFrames -> CreatencFrames] }

InitCreatenc ==
    /\ nc_dir \in CreatencDirs
    /\ soln_dir = ScanView(nc_dir)
    /\ query = [frame_bg |-> 0, frame_ed |-> 0]
    /\ result = [fn |-> "none"]
    /\ nc_args \in [module : {"netcdf", "_postprocessing"},
                    frame_bg : 0..NumFrames, frame_ed : 0..NumFrames,
                    level : Levels, dry_tol : {1},
                    extent : Opt({SuppliedExtent}), res : Opt({MosaicRes})]
    /\ root = [exists |-> FALSE, creates |-> 0, opens |-> 0, closes |-> 0,
               is_open |-> FALSE, x |-> 0, y |-> 0, nc_x |-> <<>>, nc_y |-> <<>>,
               crs |-> "none", time |-> <<>>, depth |-> <<>>]
    /\ writer = [pc |-> "convert_to_netcdf", band |-> 0, raised |-> "none",
                 log |-> <<>>, extent |-> <<>>, res |-> 0]

StartCreatenc ==
    InitCreatenc /\ IdleResolver /\ IdlePipeline /\ IdleMosaic /\ IdleVolume
                 /\ IdleResume

SpecCreatenc == StartCreatenc /\ [][NextWriter]_vars

(***************************************************************************)
(* utilities/plotdepths.py: the plot folder and the plotting tasks         *)
(***************************************************************************)
MaxRuns == 2       \* the script is run at most MaxRuns times

\* "depth{:04d}.png".format(no)
DepthFileName(no) == <<"depth", ZeroPad(Digits(no), 4), ".png">>

\* a check that never finds the figure
isfile_never(files, fig_path) == FALSE

\* os.path.isfile(fig_path)
isfile(files, fig_path) == \E f \in files : f.name = fig_path

\* figH.savefig(fig_path): the figure of this run replaces any older one
savefig(files, fig_path, run) ==
    {f \in files : f.name # fig_path} \cup {[name |-> fig_path, run |-> run]}

\* the figures an earlier run may have left in the plot folder
InitResume ==
    /\ plot_args = [run |-> 0, frame_bg |-> 0, frame_ed |-> 0, restart |-> FALSE,
                    found |-> {}]
    /\ \E isdir \in BOOLEAN, nos \in SUBSET (0..NumFrames - 1) :
          /\ isdir \/ nos = {}
          /\ plotdir = [isdir |-> isdir,
                        files |-> {[name |-> DepthFileName(n), run |-> 0] : n \in nos},
                        backups |-> 0]
    /\ tasks = <<>>

\* __main__ up to the pool: the plot folder is created, or moved away unless
\* --continue was given, and one task per frame of the range is queued
plotdepths_main ==
    /\ \A i \in DOMAIN tasks : tasks[i].done # "pending"
    /\ plot_args.run < MaxRuns
    /\ \E frame_bg, frame_ed \in 0..NumFrames, restart \in BOOLEAN :
          /\ plot_args' = [run |-> plot_args.run + 1, frame_bg |-> frame_bg,
                           frame_ed |-> frame_ed, restart |-> restart,
                           found |-> IF plotdir.isdir /\ restart
                                     THEN plotdir.files ELSE {}]
          /\ plotdir' =
                IF ~plotdir.isdir
                THEN [plotdir EXCEPT !.isdir = TRUE, !.files = {}]
                ELSE IF ~restart
                THEN [plotdir EXCEPT !.files = {}, !.backups = @ + 1]
                ELSE plotdir
          /\ tasks' = [k \in 1..RangeLen(frame_bg, frame_ed) |->
                          [no |-> frame_bg + k - 1, done |-> "pending"]]

\* plotting_task, run by a process of the pool for one queued frame
plotting_task(i) ==
    /\ tasks[i].done = "pending"
    /\ LET fig_path == DepthFileName(tasks[i].no)
       IN  IF isfile(plotdir.files, fig_path)
           THEN /\ tasks' = [tasks EXCEPT ![i].done = "skipped"]
                /\ plotdir' = plotdir
           ELSE /\ tasks' = [tasks EXCEPT ![i].done = "rendered"]
                /\ plotdir' = [plotdir EXCEPT
                                  !.files = savefig(@, fig_path, plot_args.run)]
    /\ UNCHANGED plot_args

NextResume ==
    \/ plotdepths_main /\ UNCHANGED notResumeVars
    \/ \E i \in DOMAIN tasks : plotting_task(i) /\ UNCHANGED notResumeVars

StartResume == InitResume /\ IdleNotResume

SpecResume == StartResume /\ [][NextResume]_vars

(***************************************************************************)
(* Properties of the chunk planner and its child processes                 *)
(***************************************************************************)
Planned == child_args # <<>>
RangeSize == args.frame_ed - args.frame_bg
ChunkSize(c) == c.frame_ed - c.frame_bg
InChunk(f, c) == c.frame_bg <= f /\ f < c.frame_ed

RECURSIVE SumOfSizes(_)
SumOfSizes(ca) == IF ca = <<>> THEN 0 ELSE ChunkSize(Head(ca)) + SumOfSizes(Tail(ca))

\* C1: once plot_depth / plot_topo has planned a frame range of size R >= 0 over
\* w >= 1 processes, there are w chunks, their sizes add up to R, the first chunk
\* has floor(R/w) + (R mod w) frames and every other chunk has floor(R/w) frames.
C1_ChunkSizes ==
    (Planned /\ RangeSize >= 0) =>
        /\ Len(child_args) = args.nprocs
        /\ SumOfSizes(child_args) = RangeSize
        /\ ChunkSize(child_args[1]) = (RangeSize \div args.nprocs) + (RangeSize % args.nprocs)
        /\ \A i \in 2..Len(child_args) : ChunkSize(child_args[i]) = RangeSize \div args.nprocs

\* a plan with several processes and a remainder that is not zero
C1_Witness ==
    /\ Planned
    /\ args.nprocs >= 2
    /\ RangeSize > args.nprocs
    /\ RangeSize % args.nprocs >= 1

C3_NoSharedOutputFile ==
    /\ \A s, t \in saved : s.file = t.file => s.proc = t.proc
    /\ \A s \in saved : InChunk(s.frame, child_args[s.proc])

\* two processes have both saved files and every process has finished
C3_Witness ==
    /\ Planned
    /\ \E s, t \in saved : s.proc # t.proc
    /\ \A i \in DOMAIN child_args : fno[i] >= child_args[i].frame_ed

(***************************************************************************)
(* Properties of the frame-range resolver                                  *)
(***************************************************************************)
Resolved == resolved.site # "none"
T0(rd) == IF rd.output_t0 THEN 1 ELSE 0

\* C4 as stated: a frame range the caller supplies explicitly comes back unchanged.
C4_SuppliedRangeUnchanged ==
    (Resolved /\ cli.frame_bg.given /\ cli.frame_ed.given) =>
        /\ resolved.frame_bg = cli.frame_bg
        /\ resolved.frame_ed = cli.frame_ed

\* C4: for a frame range the caller supplies explicitly, every call site keeps
\* frame_bg as supplied and turns the supplied (inclusive) frame_ed into the
\* exclusive end frame_ed + 1, whatever the output style.
C4_SuppliedRangeEndPlusOne ==
    (Resolved /\ cli.frame_bg.given /\ cli.frame_ed.given) =>
        /\ resolved.frame_bg = Some(cli.frame_bg.val)
        /\ resolved.frame_ed = Some(cli.frame_ed.val + 1)

\* both bounds supplied, resolved by update_frame_range under output style 3
C4_Witness ==
    /\ resolved.site = "update_frame_range"
    /\ cli.frame_bg.given /\ cli.frame_bg.val >= 1
    /\ cli.frame_ed.given
    /\ rundata.output_style = 3

\* C5: without a supplied frame_ed every call site gives the same end frame:
\* num_output_times (+1 if output_t0) under style 1, len(output_times) under
\* style 2 (never +1), the integer quotient total_steps / output_step_interval
\* (+1 if output_t0) under style 3.
C5_DefaultFrameEnd ==
    (Resolved /\ ~cli.frame_ed.given) =>
        resolved.frame_ed =
            Some(CASE rundata.output_style = 1 -> rundata.num_output_times + T0(rundata)
                   [] rundata.output_style = 2 -> Len(rundata.output_times)
                   [] rundata.output_style = 3 ->
                        (rundata.total_steps \div rundata.output_step_interval) + T0(rundata))

\* style 2 with the initial time written, and a style-3 quotient that is not exact
C5_Witness ==
    /\ Resolved
    /\ ~cli.frame_ed.given
    /\ rundata.output_t0
    /\ \/ rundata.output_style = 2 /\ resolved.site = "extract_info_from_setrun"
                                   /\ Len(rundata.output_times) >= 1
       \/ rundata.output_style = 3 /\ resolved.site = "plot_depth"
            /\ rundata.total_steps % rundata.output_step_interval # 0

Returned(fns) == result.fn \in fns
ScannedFrames == {f \in 0..NumFrames - 1 : query.frame_bg <= f /\ f < query.frame_ed}

\* <<frame, index in file order>> of every patch at the asked level in the range
Matches ==
    {m \in ScannedFrames \X (1..MaxPatches) :
        /\ m[2] \in DOMAIN soln_dir[m[1] + 1].patches
        /\ soln_dir[m[1] + 1].patches[m[2]].patch.level = result.level}
PatchAt(m) == soln_dir[m[1] + 1].patches[m[2]]
Before(m, n) == m[1] < n[1] \/ (m[1] = n[1] /\ m[2] <= n[2])
FirstMatch == CHOOSE m \in Matches : \A n \in Matches : Before(m, n)
Least(S) == CHOOSE x \in S : \A y \in S : x <= y
Greatest(S) == CHOOSE x \in S : \A y \in S : x >= y

\* C7: get_soln_res returns the delta of the first patch at the asked level, in
\* frame order and then file order, having read the frames from frame_bg up to
\* that patch's frame and none after it; it raises AMRLevelError exactly when the
\* range (possibly empty) holds no patch at that level.
C7_ResolutionOfFirstPatch ==
    Returned({"get_soln_res"}) =>
        IF Matches = {}
        THEN /\ result.raised = "AMRLevelError"
             /\ Len(result.reads) = Cardinality(ScannedFrames)
        ELSE /\ result.raised = "none"
             /\ result.value = PatchAt(FirstMatch).patch.delta
             /\ result.reads = [k \in 1..(FirstMatch[1] - query.frame_bg + 1) |->
                                  ReadCall(query.frame_bg + k - 1,
                                           AuxIsFile(query.frame_bg + k - 1))]

\* the first patch at the level is found in the second frame read, and the range
\* holds patches at that level with different deltas
C7_Witness ==
    /\ Returned({"get_soln_res"})
    /\ result.raised = "none"
    /\ Len(result.reads) >= 2
    /\ \E m, n \in Matches : m[1] = n[1] /\ PatchAt(m).patch.delta # PatchAt(n).patch.delta

\* C8: get_soln_extent returns [min lower x, min lower y, max upper x, max upper y]
\* over exactly the patches at the asked level in the frames of [bg, ed), and the
\* all-infinity box, without an error, when there is no such patch.
C8_ExtentOfLevel ==
    Returned({"get_soln_extent"}) =>
        /\ result.raised = "none"
        /\ result.value =
              IF Matches = {} THEN <<PosInf, PosInf, NegInf, NegInf>>
              ELSE <<Fin(Least({PatchAt(m).patch.lower_global[1] : m \in Matches})),
                     Fin(Least({PatchAt(m).patch.lower_global[2] : m \in Matches})),
                     Fin(Greatest({PatchAt(m).patch.upper_global[1] : m \in Matches})),
                     Fin(Greatest({PatchAt(m).patch.upper_global[2] : m \in Matches}))>>

\* two patches at the level in different frames, next to a patch of another level
C8_Witness ==
    /\ Returned({"get_soln_extent"})
    /\ \E m, n \in Matches : m[1] # n[1] /\ PatchAt(m) # PatchAt(n)
    /\ \E f \in ScannedFrames : \E i \in DOMAIN soln_dir[f + 1].patches :
          soln_dir[f + 1].patches[i].patch.level # result.level

\* C9: get_soln_min / get_soln_max fail with AMRLevelError when the scanned range
\* holds no patch at the asked level.
C9_ValueRangeRaises ==
    (Returned({"get_soln_min", "get_soln_max"}) /\ Matches = {}) =>
        result.raised = "AMRLevelError"

\* C10: get_topo_min / get_topo_max raise NoFrameDataError when no frame of the
\* range has an aux file, never return an infinite extremum, and read only the
\* frames that have an aux file.
C10_TopoRangeNeedsAux ==
    Returned({"get_topo_min", "get_topo_max"}) =>
        /\ ((\A f \in ScannedFrames : ~AuxIsFile(f)) => result.raised = "NoFrameDataError")
        /\ result.raised \in {"none", "NoFrameDataError"}
        /\ (result.raised = "none" => result.value.inf = 0)
        /\ \A k \in DOMAIN result.reads :
              AuxIsFile(result.reads[k].fno) /\ result.reads[k].read_aux
        /\ Len(result.reads) = Cardinality({f \in ScannedFrames : AuxIsFile(f)})

\* two frames with patches at the level, neither with an aux file: nothing is
\* read and NoFrameDataError is raised
C10_Witness ==
    /\ Returned({"get_topo_min"})
    /\ Cardinality(ScannedFrames) >= 2
    /\ \A f \in ScannedFrames : ~AuxIsFile(f)
    /\ Matches # {}
    /\ result.reads = <<>>
    /\ result.raised = "NoFrameDataError"

(***************************************************************************)
(* Properties of interpolate                                               *)
(***************************************************************************)
Interpolated == interp_out.fn # "none"
AtLevel == {i \in DOMAIN soln : soln[i].patch.level = interp_out.level}

\* the cell of state i under the output cell of row R (from the north) and
\* column C, or <<>> if the state does not cover it
NativeCell(i, R, C) ==
    LET p == soln[i].patch
        ci == C - p.lower_global[1]
        cj == (GridSize + 1 - R) - p.lower_global[2]
    IN  IF ci \in 1..p.num_cells_global[1] /\ cj \in 1..p.num_cells_global[2]
        THEN <<soln[i].q0[ci][cj]>>
        ELSE <<>>

Covering(R, C) == {i \in AtLevel : NativeCell(i, R, C) # <<>>}
FirstCovering(R, C) == CHOOSE i \in Covering(R, C) : \A k \in Covering(R, C) : i <= k
OutCells == (1..GridSize) \X (1..GridSize)

\* one state at the level, and it spans the whole output extent
IdentityResampling ==
    /\ Cardinality(AtLevel) = 1
    /\ \A rc \in OutCells : Covering(rc[1], rc[2]) # {}

\* C11 as stated: a frame without a patch at the level makes interpolate fail
\* with NoWetCellError and with nothing else.
C11_NoPatchRaisesNoWetCell ==
    (Interpolated /\ AtLevel = {}) => interp_out.raised = "NoWetCellError"

\* C12 as stated: patches at the level whose merged cells are all below dry_tol
\* make interpolate signal NoWetCellError.
C12_AllDryRaisesNoWetCell ==
    (/\ Interpolated
     /\ interp_out.fn = "calc.interpolate"
     /\ interp_args.fault = "none"
     /\ AtLevel # {}
     /\ \A i \in AtLevel : \A x \in DOMAIN soln[i].q0 : \A y \in DOMAIN soln[i].q0[x] :
            soln[i].q0[x][y] < interp_args.dry_tol)
    => interp_out.raised = "NoWetCellError"

\* C13: when interpolate returns, an output cell under the first state of the
\* level that covers it is nodata if that state's native value is below
\* dry_tol and is the native value otherwise (a value equal to dry_tol is
\* kept); a cell no state covers is nodata.  The threshold acts on the merged
\* raster: a dry cell of the first covering state is nodata even where a later
\* state is wet.  Under identity resampling every cell is a cell of the one
\* state of the level.
C13_DryCellsMasked ==
    (Interpolated /\ interp_out.raised = "none") =>
        \A rc \in OutCells :
            LET R == rc[1]
                C == rc[2]
            IN  IF Covering(R, C) = {}
                THEN ~IdentityResampling /\ interp_out.dst[R][C] = nodata
                ELSE LET v == NativeCell(FirstCovering(R, C), R, C)[1]
                     IN  interp_out.dst[R][C] =
                            IF v < interp_args.dry_tol THEN nodata ELSE v

C13_Witness ==
    /\ Interpolated
    /\ interp_out.raised = "none"
    /\ IdentityResampling
    /\ \E rc \in OutCells : interp_out.dst[rc[1]][rc[2]] = nodata
    /\ \E rc \in OutCells : interp_out.dst[rc[1]][rc[2]] = interp_args.dry_tol
    /\ \E rc \in OutCells : interp_out.dst[rc[1]][rc[2]] > interp_args.dry_tol

(***************************************************************************)
(* Properties of get_total_volume and create_volume_csv                    *)
(***************************************************************************)
RECURSIVE SumOver(_, _)
SumOver(S, F) ==
    IF S = {} THEN 0
    ELSE LET x == CHOOSE y \in S : TRUE IN F[x] + SumOver(S \ {x}, F)

\* the frames of the range of the volume call
VolumeRange == {f \in 0..NumFrames - 1 : vol_args.frame_bg <= f /\ f < vol_args.frame_ed}

\* sum(q[0]) of state i of frame f, over its native cells
CellSum(f, i) ==
    LET q == vol_dir[f + 1][i].q0
        cells == {c \in (DOMAIN q) \X (1..Len(q[1])) : TRUE}
    IN  SumOver(cells, [c \in cells |-> q[c[1]][c[2]]])

\* the volume of level L in frame f
LevelVolume(f, L) ==
    LET at == {i \in DOMAIN vol_dir[f + 1] : vol_dir[f + 1][i].patch.level = L}
    IN  SumOver(at, [i \in at |->
            CellSum(f, i) * vol_dir[f + 1][i].patch.delta[1]
                          * vol_dir[f + 1][i].patch.delta[2]])

LevelsInRange ==
    \A f \in VolumeRange : \A i \in DOMAIN vol_dir[f + 1] :
        vol_dir[f + 1][i].patch.level <= vol_args.level

WriterRange == RangeLen(nc_args.frame_bg, nc_args.frame_ed)

\* the frame of band b, or a missing frame beyond the folder
BandFrame(b) ==
    IF nc_args.frame_bg + b + 1 \in DOMAIN nc_dir
    THEN nc_dir[nc_args.frame_bg + b + 1]
    ELSE [exists |-> FALSE, aux_file |-> FALSE, t |-> 0, states |-> <<>>,
          fault |-> "none"]

HasLevel(frame) == \E i \in DOMAIN frame.states : frame.states[i].patch.level = nc_args.level

\* the frames interpolate raises NoWetCellError for
RaisesNoWetCell(frame) ==
    frame.exists /\ ~HasLevel(frame) /\ nc_args.module = "netcdf"

\* the frames whose pass raises something else
FailsOtherwise(frame) ==
    \/ ~frame.exists
    \/ HasLevel(frame) /\ frame.fault # "none"
    \/ ~HasLevel(frame) /\ nc_args.module # "netcdf"

\* the bands whose pass of the loop has ended without an error
PassedBands ==
    IF writer.pc = "done" THEN 0..WriterRange - 1
    ELSE IF writer.pc \in {"loop", "raised"} THEN 0..writer.band - 1
    ELSE {}

AllNodata(slice) ==
    /\ DOMAIN slice = 1..GridSize
    /\ \A R \in DOMAIN slice :
          DOMAIN slice[R] = 1..GridSize /\ \A C \in DOMAIN slice[R] : slice[R][C] = nodata

\* C16: a frame for which interpolate raises NoWetCellError gets an
\* all-nodata depth band and its time value, and the loop goes on; a run in
\* which nothing but NoWetCellError is raised ends with frame_ed - frame_bg
\* time values and depth bands.
C16_NoWetCellRecovered ==
    /\ \A b \in PassedBands :
          RaisesNoWetCell(BandFrame(b)) =>
              /\ b \in DOMAIN root.depth /\ AllNodata(root.depth[b])
              /\ b \in DOMAIN root.time /\ root.time[b] = BandFrame(b).t
    /\ (writer.pc = "raised") => ~RaisesNoWetCell(BandFrame(writer.band))
    /\ (writer.pc = "done" /\ nc_args.frame_bg <= nc_args.frame_ed) =>
          /\ DOMAIN root.time = 0..(nc_args.frame_ed - nc_args.frame_bg) - 1
          /\ DOMAIN root.depth = 0..(nc_args.frame_ed - nc_args.frame_bg) - 1

C16_Witness ==
    /\ writer.pc = "done"
    /\ WriterRange = 2
    /\ RaisesNoWetCell(BandFrame(0))
    /\ ~RaisesNoWetCell(BandFrame(1))
    /\ AllNodata(root.depth[0])
    /\ ~AllNodata(root.depth[1])
    /\ root.time[1] = 60

\* C17: nothing but NoWetCellError is recovered.  A pass that fails in another
\* way (the frame file is missing, or interpolate raises another error) ends
\* write_soln_to_nc with that error at its band k: no depth band k and no band
\* after k exists, every band before k belongs to a frame that did not fail
\* that way, and no band is written a second time.
C17_OtherFailuresAbort ==
    /\ \A b \in PassedBands : ~FailsOtherwise(BandFrame(b))
    /\ (writer.pc = "raised") =>
          /\ FailsOtherwise(BandFrame(writer.band))
          /\ writer.raised \in {"FileNotFound", "IndexError", "MemoryError"}
          /\ DOMAIN root.depth = 0..writer.band - 1
          /\ DOMAIN root.time \subseteq 0..writer.band
    /\ \A i, j \in DOMAIN writer.log :
          (i # j) => (writer.log[i].var # writer.log[j].var
                      \/ writer.log[i].band # writer.log[j].band)

C17_Witness ==
    /\ writer.pc = "raised"
    /\ writer.raised = "MemoryError"
    /\ writer.band = 1
    /\ WriterRange = 2
    /\ DOMAIN root.depth = {0}

\* C19: write_soln_to_nc writes one band at a time in increasing order: a
\* step writes at most the band of the loop counter, which is the frame number
\* minus frame_bg and the number of bands written so far, it writes the time
\* and the depth of a band at most once, and it leaves every band written
\* before as it was.
C19_SequentialAppendOnly ==
    [][ /\ \A b \in DOMAIN root.time :
              b \in DOMAIN root'.time /\ root'.time[b] = root.time[b]
        /\ \A b \in DOMAIN root.depth :
              b \in DOMAIN root'.depth /\ root'.depth[b] = root.depth[b]
        /\ (DOMAIN root'.time) \ (DOMAIN root.time) \subseteq {writer.band}
        /\ (DOMAIN root'.depth) \ (DOMAIN root.depth) \subseteq {writer.band}
        /\ (DOMAIN root'.time # DOMAIN root.time) =>
              /\ DOMAIN root.time = 0..writer.band - 1
              /\ root'.time[writer.band] = BandFrame(writer.band).t
        /\ \A i \in DOMAIN writer'.log :
              /\ writer'.log[i].fno - nc_args.frame_bg = writer'.log[i].band
              /\ \A j \in DOMAIN writer'.log :
                    i < j => \/ writer'.log[i].band < writer'.log[j].band
                             \/ /\ writer'.log[i].band = writer'.log[j].band
                                /\ writer'.log[i].var = "time"
                                /\ writer'.log[j].var = "depth"
        /\ (writer'.pc = "done") =>
              /\ Len(writer'.log) = 2 * WriterRange
              /\ ~root'.is_open
      ]_vars

C19_Witness ==
    /\ writer.pc = "done"
    /\ Len(writer.log) = 4
    /\ writer.log[3] = [var |-> "time", band |-> 1, fno |-> 1,
                        read_aux |-> BandFrame(1).aux_file,
                        extent |-> <<>>, res |-> 0]
    /\ root.time = [b \in 0..1 |-> 60 * b]

\* C20 as stated: in a finished run the file was created once and closed once.
C20_CreatedOnceClosedOnce ==
    (writer.pc = "done") => (root.creates = 1 /\ root.closes = 1)

\* C20: the file is created once, by init_nc_file, which closes it;
\* write_soln_to_nc opens it again and closes it after the last band.  So the
\* file is never open twice at a time, a finished run has opened and closed it
\* twice, and a run write_soln_to_nc left with an error has closed it once.
C20_CreatedOnceClosedPerOpen ==
    /\ root.creates = (IF root.exists THEN 1 ELSE 0)
    /\ root.opens - root.closes = (IF root.is_open THEN 1 ELSE 0)
    /\ (DOMAIN root.time # {} \/ DOMAIN root.depth # {}) => root.opens = 2
    /\ (writer.pc = "loop") => root.is_open
    /\ (writer.pc = "write_soln_to_nc") => (root.opens = 1 /\ root.closes = 1)
    /\ (writer.pc = "done") => (root.opens = 2 /\ root.closes = 2)
    /\ (writer.pc = "raised") => (root.opens = 2 /\ root.closes = 1)

C20_Witness ==
    /\ writer.pc = "done"
    /\ root.closes = 2
    /\ DOMAIN root.depth = 0..1

(***************************************************************************)
(* Properties of the plotting tasks of utilities/plotdepths.py             *)
(***************************************************************************)
ContinueRun == plot_args.run > 0 /\ plot_args.restart
RunFinished == \A i \in DOMAIN tasks : tasks[i].done # "pending"
FoundNames == {f.name : f \in plot_args.found}
Rendered == {tasks[i].no : i \in {k \in DOMAIN tasks : tasks[k].done = "rendered"}}
Missing == {tasks[i].no : i \in {k \in DOMAIN tasks :
                                   DepthFileName(tasks[k].no) \notin FoundNames}}

\* C18: in a run with --continue a frame whose figure exists is neither
\* rendered nor rewritten: every figure found at the start of the run is still
\* there as it was, only frames without a figure are rendered, and when the
\* run has finished exactly those frames of the range have been rendered, each
\* with a figure of this run; over a fully rendered range no file changes.
C18_ResumeRendersMissingOnly ==
    ContinueRun =>
        /\ plot_args.found \subseteq plotdir.files
        /\ Rendered \subseteq Missing
        /\ \A f \in plotdir.files \ plot_args.found :
              f.run = plot_args.run /\ \E n \in Rendered : f.name = DepthFileName(n)
        /\ RunFinished =>
              /\ Rendered = Missing
              /\ \A n \in Missing :
                    [name |-> DepthFileName(n), run |-> plot_args.run] \in plotdir.files
              /\ (Missing = {}) => plotdir.files = plot_args.found

C18_Witness ==
    /\ ContinueRun
    /\ RunFinished
    /\ Len(tasks) = 2
    /\ tasks[1].done = "skipped"
    /\ tasks[2].done = "rendered"
    /\ plot_args.found # {}

(***************************************************************************)
(* Properties of interpolate: temporary rasters and level isolation        *)
(***************************************************************************)

\* C21: every in-memory raster and memory file opened by interpolate is closed
\* when interpolate returns or raises, whatever the exit path: a normal return,
\* NoWetCellError, a re-raised merge error, or a failure while a later patch
\* raster is being built.
C21_RastersClosedOnEveryExit ==
    Interpolated => interp_out.closed = interp_out.opened

\* the frame that keeps, in order, only the patches of soln at the requested level
OnlyLevel == SelectSeq(soln, LAMBDA state : state.patch.level = interp_out.level)

\* C26: the result of interpolate depends only on the patches whose level is the
\* requested one: the frame and the frame stripped of every other level give the
\* same raster and the same outcome, for the same dry_tol, extent, resolution
\* and nodata.
C26_OnlyRequestedLevelMatters ==
    Interpolated =>
        interp_out =
            IF interp_out.fn = "calc.interpolate"
            THEN interpolate(OnlyLevel, interp_out.level, interp_args.dry_tol,
                             MosaicExtent, MosaicRes, nodata, interp_args.fault)
            ELSE postprocessing_interpolate(OnlyLevel, interp_out.level,
                                            interp_args.dry_tol, MosaicExtent,
                                            MosaicRes, nodata, interp_args.fault)

C26_Witness ==
    /\ interp_out.fn = "calc.interpolate"
    /\ interp_out.raised = "none"
    /\ AtLevel # {}
    /\ \E i \in DOMAIN soln :
          /\ soln[i].patch.level # interp_out.level
          /\ \E j \in AtLevel : i < j
          /\ \E c \in DOMAIN soln[i].q0 : \E r \in DOMAIN soln[i].q0[c] :
                soln[i].q0[c][r] >= interp_args.dry_tol
    /\ \E rc \in OutCells : interp_out.dst[rc[1]][rc[2]] = nodata

(***************************************************************************)
(* Properties of the worker pool of plotdepth / plottopo                   *)
(***************************************************************************)
ChunkFrames(i) ==
    {f \in 0..MaxFrame + 1 : child_args[i].frame_bg <= f /\ f < child_args[i].frame_ed}
Renderable(i) ==
    IF args.cmd = "plottopo" THEN ChunkFrames(i) \cap aux_files ELSE ChunkFrames(i)
SavedBy(i) == {s.frame : s \in {t \in saved : t.proc = i}}
PoolLeft == parent \in {"raised", "return 0"}

\* C22: a worker that raises at a frame of its chunk has rendered the frames
\* before it and renders none after it; every other worker still renders and
\* saves every frame of its own chunk; and the parent sees the failure only
\* when no chunk is still being processed.
C22_FailureEndsOwnChunkOnly ==
    /\ \A i \in failed :
          /\ fno[i] \in faulty
          /\ SavedBy(i) = {f \in Renderable(i) : f < fno[i]}
    /\ PoolLeft =>
          \A i \in DOMAIN child_args \ failed :
              /\ fno[i] >= child_args[i].frame_ed
              /\ SavedBy(i) = Renderable(i)
    /\ parent = "raised" <=> (PoolLeft /\ failed # {})
    /\ PoolLeft => Running = {}

\* the parent has seen the failure of a worker that left frames of its chunk
\* unrendered, while another worker saved a whole chunk of two frames or more
C22_Witness ==
    /\ parent = "raised"
    /\ \E i \in failed : fno[i] + 1 < child_args[i].frame_ed
    /\ \E j \in DOMAIN child_args \ failed :
          /\ Cardinality(SavedBy(j)) >= 2
          /\ SavedBy(j) = ChunkFrames(j)

TopoRange == {f \in 0..MaxFrame : args.frame_bg <= f /\ f < args.frame_ed}

\* C30: in plottopo a frame without an aux file produces no output file and
\* does not stop its worker; a frame with an aux file yields exactly one file
\* frame<NNNNN>.png; when the command returns, the output files are exactly
\* those of the frames of [frame_bg, frame_ed) that have an aux file (for
\* every worker and its chunk, and for the command when frame_bg <= frame_ed).
C30_OneFilePerAuxFrame ==
    args.cmd = "plottopo" =>
        /\ \A s \in saved : s.frame \in aux_files /\ s.file = FrameFileName(s.frame)
        /\ \A s, t \in saved : s.file = t.file => s = t
        /\ \A i \in failed : fno[i] \in aux_files
        /\ \A i \in DOMAIN child_args \ failed :
              SavedBy(i) = {f \in ChunkFrames(i) \cap aux_files : f < fno[i]}
        /\ \A i \in DOMAIN child_args \ failed :
              fno[i] >= child_args[i].frame_ed =>
                  {s.file : s \in {t \in saved : t.proc = i}} =
                      {FrameFileName(f) : f \in ChunkFrames(i) \cap aux_files}
        /\ (parent = "return 0" /\ RangeSize >= 0) =>
              {s.file : s \in saved} = {FrameFileName(f) : f \in TopoRange \cap aux_files}

\* plottopo has returned; one worker skipped a frame without an aux file and
\* saved a later frame, and another worker saved a frame too
C30_Witness ==
    /\ args.cmd = "plottopo"
    /\ parent = "return 0"
    /\ \E s, t \in saved :
          /\ s.proc # t.proc
          /\ \E f \in ChunkFrames(s.proc) : f \notin aux_files /\ f < s.frame
    /\ TopoRange \ aux_files # {}

(***************************************************************************)
(* Properties of the elevation scans                                       *)
(***************************************************************************)

\* C27: get_topo_min / get_topo_max raise NoFrameDataError only if no frame of
\* [frame_bg, frame_ed) has an aux file: when at least one frame of the range
\* has one, they return a finite extremum.
C27_AuxFrameGivesExtremum ==
    (Returned({"get_topo_min", "get_topo_max"})
       /\ \E f \in ScannedFrames : AuxIsFile(f))
    => (result.raised = "none" /\ result.value.inf = 0)

(***************************************************************************)
(* Properties of the read_aux argument of soln.read                        *)
(***************************************************************************)
VolumeCalled == data.fn # "none"

GridOf(r) == <<r.x, r.y, r.nc_x, r.nc_y, r.crs>>
DepthEntries(w) == {i \in DOMAIN w.log : w.log[i].var = "depth"}

\* C24: the grid of the file is fixed once init_nc_file has set it: a step of
\* write_soln_to_nc changes neither the x / y dimensions, nor the coordinate
\* values, nor the CRS; the extent and resolution handed to init_nc_file stay
\* as they are, every frame is interpolated with them, and every depth band
\* has the file's y by x shape.
C24_GridFixed ==
    [][ /\ (writer.pc \in {"write_soln_to_nc", "loop"}) =>
              GridOf(root') = GridOf(root)
        /\ (writer.pc # "convert_to_netcdf") =>
              (writer'.extent = writer.extent /\ writer'.res = writer.res)
        /\ \A i \in DepthEntries(writer') :
              /\ writer'.log[i].extent = writer'.extent
              /\ writer'.log[i].res = writer'.res
        /\ \A b \in DOMAIN root'.depth :
              /\ Len(root'.depth[b]) = root'.y
              /\ \A R \in DOMAIN root'.depth[b] : Len(root'.depth[b][R]) = root'.x
        /\ (root'.exists /\ writer'.pc # "raised") =>
              /\ root'.crs = "EPSG:3857"
              /\ root'.x * writer'.res = writer'.extent[3].val - writer'.extent[1].val
              /\ root'.y * writer'.res = writer'.extent[4].val - writer'.extent[2].val
      ]_vars

\* a finished run whose extent was inferred and is one column wide, with two
\* depth bands of that width
C24_Witness ==
    /\ writer.pc = "done"
    /\ ~nc_args.extent.given
    /\ root.x = 1
    /\ root.y = GridSize
    /\ DOMAIN root.depth = 0..1
    /\ \E R \in DOMAIN root.depth[1] : root.depth[1][R][1] # nodata

\* C28: write_soln_to_nc closes the file on every exit path, also when reading
\* or interpolating a frame raises an error other than NoWetCellError.
C28_ClosedOnEveryExit ==
    (writer.pc \in {"done", "raised"}) => ~root.is_open

FramesInRange ==
    {f \in 0..NumFrames - 1 : nc_args.frame_bg <= f /\ f < nc_args.frame_ed}
LevelInRange ==
    \E f \in FramesInRange : \E i \in DOMAIN nc_dir[f + 1].states :
        nc_dir[f + 1].states[i].patch.level = nc_args.level

\* C29: when the extent is inferred and no frame of the range has a patch at
\* the level, convert_to_netcdf ends with AMRLevelError before init_nc_file is
\* called and before the file exists, with or without --res.
C29_NoLevelAbortsBeforeInit ==
    (/\ writer.pc # "convert_to_netcdf"
     /\ ~nc_args.extent.given
     /\ \A f \in FramesInRange : nc_dir[f + 1].exists
     /\ ~LevelInRange)
    => (/\ writer.pc = "raised"
        /\ writer.raised = "AMRLevelError"
        /\ ~root.exists)

(***************************************************************************)
(* Properties of the frame range of the subcommands                        *)
(***************************************************************************)
Subcommands == {"extract_info_from_setrun", "plot_depth", "create_volume_csv"}
FramesProcessed ==
    {f \in 0..MaxArg + 2 : resolved.frame_bg.val <= f /\ f < resolved.frame_ed.val}

\* C25: in volumes, createnc, plotdepth and plottopo a supplied --frame-ed E
\* becomes the exclusive end E + 1, once; frame_bg stays what the command line
\* gave (the supplied value, or the default 0); the frames of
\* range(frame_bg, frame_ed) are therefore exactly frame_bg, ..., E.
C25_SuppliedEndInclusive ==
    (resolved.site \in Subcommands /\ cli.frame_ed.given) =>
        /\ resolved.frame_ed = Some(cli.frame_ed.val + 1)
        /\ resolved.frame_bg = Some(IF cli.frame_bg.given THEN cli.frame_bg.val ELSE 0)
        /\ FramesProcessed =
              {f \in 0..MaxArg + 2 : resolved.frame_bg.val <= f /\ f <= cli.frame_ed.val}

\* plotdepth --frame-bg 1 --frame-ed 2 under output style 2: frames 1 and 2
C25_Witness ==
    /\ resolved.site = "plot_depth"
    /\ cli.frame_bg = Some(1)
    /\ cli.frame_ed = Some(2)
    /\ rundata.output_style = 2
    /\ FramesProcessed = {1, 2}

=============================================================================
